---- MODULE Spec2Model ----
(***************************************************************************)
(* Document intelligence: the text change detector                         *)
(* (ml/src/document_intelligence/change_detector.py) and the compliance    *)
(* checker (ml/src/document_intelligence/compliance_checker.py).           *)
(*                                                                         *)
(* Both services are stateless apart from the tables loaded at             *)
(* construction.  A state of the model is one call: the arguments in       *)
(* `call`, the position `pc` ("call" before the handler has run, "return"  *)
(* after), and the returned value in `ret`.  A Python str is a sequence of *)
(* one-character strings; a Python float is kept as an exact rational.     *)
(***************************************************************************)
EXTENDS Integers, Sequences, FiniteSets, TLC

VARIABLES call, ret, pc, rules, critical_keywords, now, PDF_AVAILABLE, files

vars == <<call, ret, pc, rules, critical_keywords, now, PDF_AVAILABLE, files>>

(***************************************************************************)
(* Characters and str methods                                              *)
(***************************************************************************)
UpperLetters == <<"A","B","C","D","E","F","G","H","I","J","K","L","M",
                  "N","O","P","Q","R","S","T","U","V","W","X","Y","Z">>

LowerLetters == <<"a","b","c","d","e","f","g","h","i","j","k","l","m",
                  "n","o","p","q","r","s","t","u","v","w","x","y","z">>

Digits == {"0","1","2","3","4","5","6","7","8","9"}

Whitespace == {" ", "\t", "\n", "\r"}

\* str.lower / str.upper on one character
LowerChar(c) ==
    IF \E k \in 1..26 : UpperLetters[k] = c
    THEN LowerLetters[CHOOSE k \in 1..26 : UpperLetters[k] = c]
    ELSE c

UpperChar(c) ==
    IF \E k \in 1..26 : LowerLetters[k] = c
    THEN UpperLetters[CHOOSE k \in 1..26 : LowerLetters[k] = c]
    ELSE c

lower(s) == [i \in 1..Len(s) |-> LowerChar(s[i])]

upper(s) == [i \in 1..Len(s) |-> UpperChar(s[i])]

\* str.strip(): leading and trailing whitespace removed
RECURSIVE lstrip(_)
lstrip(s) ==
    IF s # <<>> /\ Head(s) \in Whitespace THEN lstrip(Tail(s)) ELSE s

RECURSIVE rstrip(_)
rstrip(s) ==
    IF s # <<>> /\ s[Len(s)] \in Whitespace
    THEN rstrip(SubSeq(s, 1, Len(s) - 1))
    ELSE s

strip(s) == rstrip(lstrip(s))

\* `sub in s` for two str
contains(s, sub) ==
    \E i \in 1..(Len(s) - Len(sub) + 1) :
        SubSeq(s, i, i + Len(sub) - 1) = sub

\* str.replace(old, new) for a one-character old and new
replace(s, old, new) == [i \in 1..Len(s) |-> IF s[i] = old THEN new ELSE s[i]]

\* str.splitlines(keepends=True): a line ends after each "\n"; a last line
\* without a line end is kept; the empty str has no lines
RECURSIVE splitlines(_, _)
splitlines(s, cur) ==
    IF s = <<>>
    THEN IF cur = <<>> THEN <<>> ELSE <<cur>>
    ELSE IF Head(s) = "\n"
         THEN <<Append(cur, "\n")>> \o splitlines(Tail(s), <<>>)
         ELSE splitlines(Tail(s), Append(cur, Head(s)))

RECURSIVE join(_)
join(lines) ==
    IF lines = <<>> THEN <<>> ELSE Head(lines) \o join(Tail(lines))

(***************************************************************************)
(* difflib.SequenceMatcher without junk (no line or character is junk for  *)
(* sequences shorter than 200 elements)                                    *)
(***************************************************************************)
\* length of the common run of a[i..ahi-1] and b[j..bhi-1]
RECURSIVE MatchLen(_, _, _, _, _, _)
MatchLen(a, i, ahi, b, j, bhi) ==
    IF i < ahi /\ j < bhi /\ a[i] = b[j]
    THEN 1 + MatchLen(a, i + 1, ahi, b, j + 1, bhi)
    ELSE 0

\* the longest matching block of a[alo..ahi-1] and b[blo..bhi-1]: of the
\* longest ones the one that starts earliest in a, then earliest in b
find_longest_match(a, alo, ahi, b, blo, bhi) ==
    LET pos == (alo..(ahi - 1)) \X (blo..(bhi - 1))
        K(p) == MatchLen(a, p[1], ahi, b, p[2], bhi)
        good == {p \in pos : K(p) > 0}
    IN  IF good = {}
        THEN <<alo, blo, 0>>
        ELSE LET best == CHOOSE p \in good :
                            \A q \in good :
                                \/ K(p) > K(q)
                                \/ K(p) = K(q) /\ p[1] < q[1]
                                \/ K(p) = K(q) /\ p[1] = q[1] /\ p[2] <= q[2]
             IN  <<best[1], best[2], K(best)>>

\* the matching blocks in increasing order (the final zero-length block of
\* difflib is left out): the blocks left of the longest match m, m itself,
\* the blocks right of it
RECURSIVE get_matching_blocks(_, _, _, _, _, _)
BlocksAround(a, alo, ahi, b, blo, bhi, m) ==
    IF m[3] = 0
    THEN <<>>
    ELSE (IF alo < m[1] /\ blo < m[2]
          THEN get_matching_blocks(a, alo, m[1], b, blo, m[2])
          ELSE <<>>)
         \o <<m>> \o
         (IF m[1] + m[3] < ahi /\ m[2] + m[3] < bhi
          THEN get_matching_blocks(a, m[1] + m[3], ahi, b, m[2] + m[3], bhi)
          ELSE <<>>)

get_matching_blocks(a, alo, ahi, b, blo, bhi) ==
    BlocksAround(a, alo, ahi, b, blo, bhi,
                 find_longest_match(a, alo, ahi, b, blo, bhi))

RECURSIVE SumSizes(_)
SumSizes(blocks) ==
    IF blocks = <<>> THEN 0 ELSE Head(blocks)[3] + SumSizes(Tail(blocks))

\* SequenceMatcher.ratio(): 2.0 * matches / length, 1.0 for two empty
\* sequences; the float is kept as the rational <<numerator, denominator>>
ratio(a, b) ==
    LET length == Len(a) + Len(b)
        matches == SumSizes(get_matching_blocks(a, 1, Len(a) + 1, b, 1, Len(b) + 1))
    IN  IF length = 0 THEN <<1, 1>> ELSE <<2 * matches, length>>

\* comparisons of two floats kept as rationals with positive denominators
Gt(x, y) == x[1] * y[2] > y[1] * x[2]

Eq(x, y) == x[1] * y[2] = y[1] * x[2]

\* round(x, ndigits) of the float n/d, d > 0, as a count of 10^-ndigits
\* units (scale = 10^ndigits); a value exactly half way goes to the even
\* neighbour
round(n, d, scale) ==
    LET q == (n * scale) \div d
        r == (n * scale) % d
    IN  IF 2 * r < d THEN q
        ELSE IF 2 * r > d THEN q + 1
        ELSE IF q % 2 = 0 THEN q ELSE q + 1

(***************************************************************************)
(* difflib.Differ.compare on two lists of lines                            *)
(***************************************************************************)
\* the diff lines "<tag> <line>" of lines[lo..hi-1]
Dump(tag, lines, lo, hi) ==
    [k \in 1..(hi - lo) |-> <<tag, " ">> \o lines[lo + k - 1]]

\* The opcodes of the matching blocks, each dumped in turn: the lines of a
\* between two blocks are "- " lines, those of b "+ " lines, the lines of a
\* block "  " lines.  Inside a replaced region Differ interleaves the "- "
\* and "+ " lines and adds "? " hint lines; each kind stays in document
\* order, which is all the parse in detect_text_changes reads.
RECURSIVE DumpOpcodes(_, _, _, _, _)
DumpOpcodes(a, b, i, j, blocks) ==
    LET blk == IF blocks = <<>>
               THEN <<Len(a) + 1, Len(b) + 1, 0>>
               ELSE Head(blocks)
        ai == blk[1]
        bj == blk[2]
        size == blk[3]
        gap == Dump("-", a, i, ai) \o Dump("+", b, j, bj)
        equal == Dump(" ", a, ai, ai + size)
    IN  IF blocks = <<>>
        THEN gap
        ELSE gap \o equal \o DumpOpcodes(a, b, ai + size, bj + size, Tail(blocks))

Differ_compare(a, b) ==
    DumpOpcodes(a, b, 1, 1,
                get_matching_blocks(a, 1, Len(a) + 1, b, 1, Len(b) + 1))

startswith(s, prefix) ==
    Len(s) >= Len(prefix) /\ SubSeq(s, 1, Len(prefix)) = prefix

\* the loop of detect_text_changes over the diff: line[2:].strip() of the
\* lines that start with the given tag
\* ParseDiff without the test of the tag: every line of the diff is taken
ParseDiffAnyTag(diff, tag) ==
    [k \in 1..Len(diff) |-> strip(SubSeq(diff[k], 3, Len(diff[k])))]

RECURSIVE ParseDiff(_, _)
ParseDiff(diff, tag) ==
    IF diff = <<>>
    THEN <<>>
    ELSE LET line == Head(diff)
         IN  (IF startswith(line, <<tag, " ">>)
              THEN <<strip(SubSeq(line, 3, Len(line)))>>
              ELSE <<>>)
             \o ParseDiff(Tail(diff), tag)

(***************************************************************************)
(* ChangeDetector                                                          *)
(***************************************************************************)
\* ChangeDetector.__init__: self.critical_keywords
CriticalKeywords ==
    << <<"p","r","i","c","e">>, <<"a","m","o","u","n","t">>, <<"d","a","t","e">>,
       <<"d","e","a","d","l","i","n","e">>, <<"p","a","y","m","e","n","t">>,
       <<"s","i","g","n","a","t","u","r","e">>, <<"c","o","n","t","r","a","c","t">>,
       <<"a","g","r","e","e","m","e","n","t">>, <<"t","e","r","m","s">>,
       <<"c","o","n","d","i","t","i","o","n","s">>, <<"b","u","y","e","r">>,
       <<"s","e","l","l","e","r">>, <<"p","r","o","p","e","r","t","y">>,
       <<"l","o","a","n">>, <<"c","l","o","s","i","n","g">>,
       <<"e","a","r","n","e","s","t">>, <<"d","e","p","o","s","i","t">> >>

\* Lines that pair at chosen similarities: LineT with LineU at 0.95 (38/40),
\* LineX with both at 0.8 (32/40), LineW with both at exactly 0.6 (24/40)
LineT == <<"a","b","c","d","e","f","g","h","i","j","k","l","m","n","o","p","q","r","s","t">>

LineU == <<"a","b","c","d","e","f","g","h","i","j","k","l","m","n","o","p","q","r","s","u">>

LineW == <<"a","b","c","d","e","f","g","h","i","j","k","l","1","2","3","4","5","6","7","8">>

LineX == <<"a","b","c","d","e","f","g","h","i","j","k","l","m","n","o","p","9","8","7","6">>

\* Lines with and without a critical keyword, in two letter cases and with
\* surrounding blanks
LineLoan == <<"L","o","a","n",":"," ","5">>

LineLoan2 == <<"l","o","a","n",":"," ","7">>

LineFee == <<"f","e","e"," ","1">>

LineFeeIndented == <<" "," ","f","e","e"," ","1"," ">>

\* the two lines of test_detect_modifications
LinePrice450 ==
    <<"P","u","r","c","h","a","s","e"," ","P","r","i","c","e",":"," ","$","4","5","0",",","0","0","0",".","0","0">>

LinePrice475 ==
    <<"P","u","r","c","h","a","s","e"," ","P","r","i","c","e",":"," ","$","4","7","5",",","0","0","0",".","0","0">>

PriceLines == {LinePrice450, LinePrice475}

PairingLines == {LineT, LineU, LineW, LineX}

KeywordLines == {LineLoan, LineFee, LineFeeIndented}

\* the ratios of the lines above, computed once
KnownLines ==
    {strip(l) : l \in PairingLines \cup KeywordLines \cup {LineLoan2} \cup PriceLines}

RatioTable ==
    [p \in KnownLines \X KnownLines |-> ratio(p[1], p[2])] @@ <<>>

\* _calculate_similarity: difflib.SequenceMatcher(None, str1, str2).ratio()
_calculate_similarity(str1, str2) ==
    IF <<str1, str2>> \in DOMAIN RatioTable
    THEN RatioTable[<<str1, str2>>]
    ELSE ratio(str1, str2)

\* the pairing threshold of _detect_modifications, 0.6
Threshold == <<6, 10>>

\* the inner loop of _detect_modifications over the additions, from index j
\* on; best is <<best_match, best_similarity>>, best_match 0 for None
\* Better with the threshold met at equality (>= 0.6)
BetterAtThreshold(used_additions, j, best, similarity) ==
    IF /\ j \notin used_additions
       /\ ~Gt(Threshold, similarity)
       /\ Gt(similarity, best[2])
    THEN <<j, similarity>>
    ELSE best

\* Better with a tie going to the later addition (>= best_similarity)
BetterOnTie(used_additions, j, best, similarity) ==
    IF /\ j \notin used_additions
       /\ Gt(similarity, Threshold)
       /\ ~Gt(best[2], similarity)
    THEN <<j, similarity>>
    ELSE best

Better(used_additions, j, best, similarity) ==
    IF /\ j \notin used_additions
       /\ Gt(similarity, Threshold)
       /\ Gt(similarity, best[2])
    THEN <<j, similarity>>
    ELSE best

RECURSIVE BestMatch(_, _, _, _, _)
BestMatch(deletion, additions, used_additions, j, best) ==
    IF j > Len(additions)
    THEN best
    ELSE BestMatch(deletion, additions, used_additions, j + 1,
                   Better(used_additions, j, best,
                          _calculate_similarity(deletion, additions[j])))

\* the outer loop of _detect_modifications over the deletions, from index i
\* on.  A record keeps, beside old, new and the rounded similarity (in
\* thousandths), the indices it paired and the unrounded similarity.
RECURSIVE PairDeletions(_, _, _, _)
PairFrom(deletions, additions, i, used_additions, best) ==
    (IF best[1] # 0
     THEN << [old |-> deletions[i],
              new |-> additions[best[1]],
              similarity |-> round(best[2][1], best[2][2], 1000),
              i |-> i,
              j |-> best[1],
              exact |-> best[2]] >>
     ELSE <<>>)
    \o PairDeletions(deletions, additions, i + 1,
                     IF best[1] # 0 THEN used_additions \cup {best[1]}
                     ELSE used_additions)

PairDeletions(deletions, additions, i, used_additions) ==
    IF i > Len(deletions)
    THEN <<>>
    ELSE PairFrom(deletions, additions, i, used_additions,
                  BestMatch(deletions[i], additions, used_additions, 1,
                            <<0, <<0, 1>> >>))

_detect_modifications(deletions, additions) ==
    PairDeletions(deletions, additions, 1, {})

\* remove that takes out every element equal to x
RemoveEvery(list, x) ==
    SelectSeq(list, LAMBDA y : y # x)

\* list.remove(x): the first element equal to x is taken out
RECURSIVE remove(_, _)
remove(list, x) ==
    IF list = <<>> THEN <<>>
    ELSE IF Head(list) = x THEN Tail(list)
    ELSE <<Head(list)>> \o remove(Tail(list), x)

InList(x, list) == \E k \in 1..Len(list) : list[k] = x

\* "Remove matched items from deletions and additions": for each
\* modification in turn, list.remove of its old (which = "old") or new side
RECURSIVE RemoveMatched(_, _, _)
RemoveMatched(list, modifications, which) ==
    IF modifications = <<>>
    THEN list
    ELSE LET x == IF which = "old" THEN Head(modifications).old
                  ELSE Head(modifications).new
         IN  RemoveMatched(IF InList(x, list) THEN remove(list, x) ELSE list,
                           Tail(modifications), which)

\* _contains_critical_keyword without text.lower()
ContainsKeywordAsWritten(keywords, text) ==
    \E k \in 1..Len(keywords) : contains(text, keywords[k])

_contains_critical_keyword(keywords, text) ==
    LET text_lower == lower(text)
    IN  \E k \in 1..Len(keywords) : contains(text_lower, keywords[k])

\* _extract_critical_keywords: the keywords present, in vocabulary order
_extract_critical_keywords(keywords, text) ==
    LET text_lower == lower(text)
    IN  SelectSeq(keywords, LAMBDA kw : contains(text_lower, kw))

Count(list, P(_)) == Len(SelectSeq(list, P))

\* _determine_significance with MEDIUM from 20 changes on (>= 20)
SignificanceFromTwenty(keywords, additions, deletions, modifications) ==
    LET crit(text) == _contains_critical_keyword(keywords, text)
        critMod(mod) == crit(mod.old) \/ crit(mod.new)
        critical_changes ==
            Count(additions, crit) + Count(deletions, crit)
            + Count(modifications, critMod)
        total_changes == Len(additions) + Len(deletions) + Len(modifications)
    IN  IF critical_changes >= 3 THEN "CRITICAL"
        ELSE IF critical_changes >= 1 THEN "HIGH"
        ELSE IF total_changes >= 20 THEN "MEDIUM"
        ELSE "LOW"

\* _determine_significance with the critical deletions left uncounted once
\* there are two of them
SignificanceDeletionsCapped(keywords, additions, deletions, modifications) ==
    LET crit(text) == _contains_critical_keyword(keywords, text)
        critMod(mod) == crit(mod.old) \/ crit(mod.new)
        critical_deletions == Count(deletions, crit)
        critical_changes ==
            Count(additions, crit)
            + (IF critical_deletions >= 2 THEN 0 ELSE critical_deletions)
            + Count(modifications, critMod)
        total_changes == Len(additions) + Len(deletions) + Len(modifications)
    IN  IF critical_changes >= 3 THEN "CRITICAL"
        ELSE IF critical_changes >= 1 THEN "HIGH"
        ELSE IF total_changes > 20 THEN "MEDIUM"
        ELSE "LOW"

_determine_significance(keywords, additions, deletions, modifications) ==
    LET crit(text) == _contains_critical_keyword(keywords, text)
        critMod(mod) == crit(mod.old) \/ crit(mod.new)
        critical_changes ==
            Count(additions, crit) + Count(deletions, crit)
            + Count(modifications, critMod)
        total_changes == Len(additions) + Len(deletions) + Len(modifications)
    IN  IF critical_changes >= 3 THEN "CRITICAL"
        ELSE IF critical_changes >= 1 THEN "HIGH"
        ELSE IF total_changes > 20 THEN "MEDIUM"
        ELSE "LOW"

_identify_critical_changes(keywords, additions, deletions, modifications) ==
    LET crit(text) == _contains_critical_keyword(keywords, text)
        critMod(mod) == crit(mod.old) \/ crit(mod.new)
        adds == SelectSeq(additions, crit)
        dels == SelectSeq(deletions, crit)
        mods == SelectSeq(modifications, critMod)
    IN  [k \in 1..Len(adds) |-> [type |-> "addition", content |-> adds[k],
                                 keywords |-> _extract_critical_keywords(keywords, adds[k])]]
        \o [k \in 1..Len(dels) |-> [type |-> "deletion", content |-> dels[k],
                                   keywords |-> _extract_critical_keywords(keywords, dels[k])]]
        \o [k \in 1..Len(mods) |->
               [type |-> "modification",
                content |-> <<mods[k].old, mods[k].new>>,
                keywords |-> _extract_critical_keywords(keywords, mods[k].old)
                             \o _extract_critical_keywords(keywords, mods[k].new)]]

\* the local lists of detect_text_changes after the parse of the diff
\* (line 82): <<deletions, additions>>
\* ParseBoth with the two tags taken for one another
ParseBothSwapped(diff) == <<ParseDiff(diff, "+"), ParseDiff(diff, "-")>>

ParseBoth(diff) == <<ParseDiff(diff, "-"), ParseDiff(diff, "+")>>

ParsedDiff(old_text, new_text) ==
    ParseBoth(Differ_compare(splitlines(old_text, <<>>),
                             splitlines(new_text, <<>>)))

\* lines 94-129 of detect_text_changes: the statistics and the returned
\* dict, without its two display strings (changes_summary, text_diff).
\* change_percentage is in hundredths.
ChangeReport(keywords, total_lines, additions, deletions, modifications) ==
    [additions |-> additions,
     deletions |-> deletions,
     modifications |-> modifications,
     change_percentage |->
         IF total_lines > 0
         THEN round((Len(additions) + Len(deletions) + Len(modifications)) * 100,
                    total_lines, 100)
         ELSE 0,
     significance |->
         _determine_significance(keywords, additions, deletions, modifications),
     critical_changes |->
         _identify_critical_changes(keywords, additions, deletions, modifications)]

\* lines 87-92: the matched items are removed from deletions and additions
RemoveAllMatched(keywords, total_lines, parsed, modifications) ==
    ChangeReport(keywords, total_lines,
                 RemoveMatched(parsed[2], modifications, "new"),
                 RemoveMatched(parsed[1], modifications, "old"),
                 modifications)

\* lines 84-85: the modifications are detected on the parsed lists
PairParsed(keywords, total_lines, parsed) ==
    RemoveAllMatched(keywords, total_lines, parsed,
                     _detect_modifications(parsed[1], parsed[2]))

detect_text_changes(keywords, old_text, new_text) ==
    PairParsed(keywords, Len(splitlines(new_text, <<>>)),
               ParsedDiff(old_text, new_text))

(***************************************************************************)
(* Python values of extracted_data                                         *)
(*                                                                         *)
(* A value is <<type, payload>>: a str carries its characters, a number    *)
(* (int or float) an exact rational <<n, d>> with d > 0, a list its items, *)
(* a dict a function from keys to values, a datetime <<days, seconds>>     *)
(* (days since 1970-01-01, seconds since midnight).                        *)
(***************************************************************************)
None == <<"NoneType", <<>>>>

Str(s) == <<"str", s>>

Number(n, d) == <<"number", <<n, d>>>>

List(items) == <<"list", items>>

Dict(d) == <<"dict", d>>

type(v) == v[1]

EmptyDict == [k \in {} |-> None]

\* dict.get(key, default)
dict_get(d, key, default) == IF key \in DOMAIN d THEN d[key] ELSE default

\* dict.get(key)
get(d, key) == dict_get(d, key, None)

\* the truth value of a value (`if x`, `x and y`, `x or y`)
bool(v) ==
    CASE type(v) = "NoneType" -> FALSE
      [] type(v) = "str"      -> Len(v[2]) > 0
      [] type(v) = "number"   -> v[2][1] # 0
      [] type(v) = "list"     -> Len(v[2]) > 0
      [] type(v) = "dict"     -> DOMAIN v[2] # {}
      [] OTHER                -> TRUE

\* x or y
Or(x, y) == IF bool(x) THEN x ELSE y

\* sep.join(items) for a list of str
RECURSIVE str_join(_, _)
str_join(sep, items) ==
    IF items = <<>> THEN <<>>
    ELSE IF Len(items) = 1 THEN items[1]
    ELSE items[1] \o sep \o str_join(sep, Tail(items))

\* re.sub(r'[chars]', '', s)
re_sub(chars, s) == SelectSeq(s, LAMBDA c : c \notin chars)

IsDigits(s) == \A i \in 1..Len(s) : s[i] \in Digits

DigitValue(c) == CHOOSE k \in 0..9 : <<"0","1","2","3","4","5","6","7","8","9">>[k + 1] = c

\* int(s) of a str of digits
RECURSIVE int(_)
int(s) ==
    IF s = <<>> THEN 0
    ELSE 10 * int(SubSeq(s, 1, Len(s) - 1)) + DigitValue(s[Len(s)])

(***************************************************************************)
(* float arithmetic, on exact rationals                                    *)
(***************************************************************************)
Abs(x) == IF x < 0 THEN -x ELSE x

RECURSIVE Gcd(_, _)
Gcd(a, b) == IF b = 0 THEN a ELSE Gcd(b, a % b)

Reduce(n, d, g) ==
    IF d < 0 THEN <<-(n \div g), -(d \div g)>> ELSE <<n \div g, d \div g>>

\* n/d in lowest terms with a positive denominator
Rational(n, d) == Reduce(n, d, Gcd(Abs(n), Abs(d)))

Plus(x, y) == Rational(x[1] * y[2] + y[1] * x[2], x[2] * y[2])

Times(x, y) == Rational(x[1] * y[1], x[2] * y[2])

Divide(x, y) == Rational(x[1] * y[2], x[2] * y[1])

RECURSIVE Pow10(_)
Pow10(k) == IF k = 0 THEN 1 ELSE 10 * Pow10(k - 1)

\* the float written with the digits whole before the point and frac after
\* it; None stands for ValueError
Decimal(sign, whole, frac) ==
    IF IsDigits(whole) /\ IsDigits(frac) /\ Len(whole) + Len(frac) > 0
    THEN <<"number", Rational(sign * int(whole \o frac), Pow10(Len(frac)))>>
    ELSE None

Unsigned(sign, body, points) ==
    IF points = {} THEN Decimal(sign, body, <<>>)
    ELSE IF Cardinality(points) = 1
         THEN Decimal(sign,
                      SubSeq(body, 1, (CHOOSE i \in points : TRUE) - 1),
                      SubSeq(body, (CHOOSE i \in points : TRUE) + 1, Len(body)))
         ELSE None

PointsOf(body) == {i \in 1..Len(body) : body[i] = "."}

Signed(t) ==
    IF t # <<>> /\ t[1] \in {"+", "-"}
    THEN Unsigned(IF t[1] = "-" THEN -1 ELSE 1, Tail(t), PointsOf(Tail(t)))
    ELSE Unsigned(1, t, PointsOf(t))

\* float(s) of a str: optional sign, digits with at most one point and at
\* least one digit, blanks around it allowed; None stands for ValueError.
\* (Exponents, "inf", "nan" and digit-group underscores are not written in
\* the amounts of the calls.)
float(s) == Signed(strip(s))

(***************************************************************************)
(* datetime                                                                *)
(***************************************************************************)
IsLeap(y) == y % 4 = 0 /\ (y % 100 # 0 \/ y % 400 = 0)

DaysInMonth(y, m) ==
    IF m = 2 THEN (IF IsLeap(y) THEN 29 ELSE 28)
    ELSE IF m \in {4, 6, 9, 11} THEN 30 ELSE 31

\* the day number of a date of the proleptic Gregorian calendar
\* (1970-01-01 is day 0)
DayNumber(y, m, d) ==
    LET yy == IF m <= 2 THEN y - 1 ELSE y
        era == yy \div 400
        yoe == yy - era * 400
        mp == IF m > 2 THEN m - 3 ELSE m + 9
        doy == (153 * mp + 2) \div 5 + d - 1
        doe == yoe * 365 + yoe \div 4 - yoe \div 100 + doy
    IN  era * 146097 + doe - 719468

\* datetime(year, month, day, hour, minute, second)
datetime(y, m, d, H, M, S) ==
    <<"datetime", <<DayNumber(y, m, d), H * 3600 + M * 60 + S>>>>

\* a < b for two datetime
Before(a, b) ==
    a[2][1] < b[2][1] \/ (a[2][1] = b[2][1] /\ a[2][2] < b[2][2])

\* (a - b).days: the timedelta is kept with 0 <= seconds < 86400, so its
\* days are rounded down
days(a, b) == (a[2][1] - b[2][1]) - (IF a[2][2] < b[2][2] THEN 1 ELSE 0)

\* the pieces of s between the occurrences of sep
RECURSIVE Pieces(_, _, _)
Pieces(s, sep, cur) ==
    IF s = <<>> THEN <<cur>>
    ELSE IF Head(s) = sep THEN <<cur>> \o Pieces(Tail(s), sep, <<>>)
    ELSE Pieces(Tail(s), sep, Append(cur, Head(s)))

\* a directive of one or two digits with a value in lo..hi (%m, %d, %H,
\* %M, %S)
IsField(s, lo, hi) ==
    Len(s) \in {1, 2} /\ IsDigits(s) /\ int(s) \in lo..hi

\* %Y, month and day given: a date of the calendar (year 1 at least)
IsDate(Y, m, d) ==
    /\ Len(Y) = 4 /\ IsDigits(Y) /\ int(Y) >= 1
    /\ IsField(m, 1, 12)
    /\ IsField(d, 1, 31)
    /\ int(d) <= DaysInMonth(int(Y), int(m))

\* the fields of '%H:%M:%S' (a second of 60 or 61 matches the directive
\* but is no second of a datetime: ValueError as well)
IsTime(t) ==
    Len(t) = 3 /\ IsField(t[1], 0, 23) /\ IsField(t[2], 0, 59)
    /\ IsField(t[3], 0, 59)

TimeOf(t) == int(t[1]) * 3600 + int(t[2]) * 60 + int(t[3])

\* the time of a format without a time
Midnight == << <<"0">>, <<"0">>, <<"0">> >>

\* the datetime of the date fields p, taken as year p[y], month p[m] and
\* day p[d], and the time fields t; None stands for ValueError
FromFields(p, y, m, d, t) ==
    IF Len(p) = 3 /\ IsDate(p[y], p[m], p[d]) /\ IsTime(t)
    THEN <<"datetime",
           <<DayNumber(int(p[y]), int(p[m]), int(p[d])), TimeOf(t)>>>>
    ELSE None

\* where the date of a format with a time ends: the first "T" or blank
FirstBreak(s) ==
    CHOOSE i \in 1..(Len(s) + 1) :
        /\ i = Len(s) + 1 \/ s[i] \in Whitespace \cup {"T", "t"}
        /\ \A j \in 1..(i - 1) : s[j] \notin Whitespace \cup {"T", "t"}

\* a date, one of the separators (a "T", or blanks, which match in any
\* number) and a time
WithTime(s, first, separators) ==
    IF first <= Len(s) /\ s[first] \in separators
    THEN FromFields(Pieces(SubSeq(s, 1, first - 1), "-", <<>>), 1, 2, 3,
                    Pieces(IF s[first] \in Whitespace
                           THEN lstrip(SubSeq(s, first, Len(s)))
                           ELSE SubSeq(s, first + 1, Len(s)),
                           ":", <<>>))
    ELSE None

\* datetime.strptime(s, fmt) for the five formats of _parse_date; None
\* stands for ValueError; the directives are matched without regard to
\* case.  (A day written with a leading blank is not among the dates of
\* the calls.)
strptime(s, fmt) ==
    CASE fmt = "%Y-%m-%d" -> FromFields(Pieces(s, "-", <<>>), 1, 2, 3, Midnight)
      [] fmt = "%m/%d/%Y" -> FromFields(Pieces(s, "/", <<>>), 3, 1, 2, Midnight)
      [] fmt = "%d/%m/%Y" -> FromFields(Pieces(s, "/", <<>>), 3, 2, 1, Midnight)
      [] fmt = "%Y-%m-%dT%H:%M:%S" -> WithTime(s, FirstBreak(s), {"T", "t"})
      [] fmt = "%Y-%m-%d %H:%M:%S" -> WithTime(s, FirstBreak(s), Whitespace)

(***************************************************************************)
(* ComplianceChecker                                                       *)
(***************************************************************************)
\* ComplianceChecker._load_default_rules: the rules by document category
_load_default_rules ==
    (<<"S","E","T","T","L","E","M","E","N","T","_","S","T","A","T","E","M","E","N","T">> :>
        [required_fields |-> <<"buyer_name", "seller_name", "property_address",
                               "sale_price", "closing_date", "loan_amount">>,
         required_signatures |-> <<<<"b","u","y","e","r">>, <<"s","e","l","l","e","r">>, <<"c","l","o","s","i","n","g","_","a","g","e","n","t">>>>,
         date_checks |-> <<"closing_date_in_future",
                           "contract_date_before_closing">>,
         amount_checks |-> <<"loan_amount_less_than_price", "fees_reasonable">>,
         format_checks |-> <<"email_format", "phone_format">>])
    @@
    (<<"P","U","R","C","H","A","S","E","_","A","G","R","E","E","M","E","N","T">> :>
        [required_fields |-> <<"buyer_name", "seller_name", "property_address",
                               "purchase_price", "earnest_money", "closing_date",
                               "inspection_period">>,
         required_signatures |-> <<<<"b","u","y","e","r">>, <<"s","e","l","l","e","r">>>>,
         required_clauses |-> <<<<"c","o","n","t","i","n","g","e","n","c","i","e","s">>, <<"i","n","s","p","e","c","t","i","o","n","_","p","e","r","i","o","d">>,
                                <<"f","i","n","a","n","c","i","n","g","_","t","e","r","m","s">>>>,
         date_checks |-> <<"closing_date_reasonable", "inspection_period_valid">>,
         amount_checks |-> <<"earnest_money_reasonable",
                             "purchase_price_positive">>])
    @@
    (<<"L","O","A","N","_","A","P","P","L","I","C","A","T","I","O","N">> :>
        [required_fields |-> <<"applicant_name", "ssn", "loan_amount",
                               "property_address", "employment_info", "income">>,
         required_signatures |-> <<<<"a","p","p","l","i","c","a","n","t">>>>,
         date_checks |-> <<"application_date_valid">>,
         amount_checks |-> <<"loan_amount_positive", "income_sufficient">>,
         format_checks |-> <<"ssn_format", "email_format", "phone_format">>])
    @@
    (<<"T","I","T","L","E","_","I","N","S","U","R","A","N","C","E">> :>
        [required_fields |-> <<"property_address", "owner_name", "policy_number",
                               "coverage_amount", "effective_date">>,
         required_signatures |-> <<<<"i","n","s","u","r","e","r">>, <<"o","w","n","e","r">>>>,
         date_checks |-> <<"effective_date_valid">>,
         amount_checks |-> <<"coverage_amount_reasonable">>])
    @@
    (<<"D","E","E","D">> :>
        [required_fields |-> <<"grantor_name", "grantee_name",
                               "property_description", "consideration_amount",
                               "execution_date">>,
         required_signatures |-> <<<<"g","r","a","n","t","o","r">>, <<"n","o","t","a","r","y">>>>,
         required_clauses |-> <<<<"l","e","g","a","l","_","d","e","s","c","r","i","p","t","i","o","n">>>>,
         date_checks |-> <<"execution_date_valid">>,
         format_checks |-> <<"legal_description_format">>])

\* the {} of rules.get(category, {})
EmptyRules == [k \in {} |-> <<>>]

\* the outcome of the loop of a check: the issues appended, or raised when
\* the loop ended with a TypeError
NoIssue == [raised |-> FALSE, issues |-> <<>>]

Issue(text) == [raised |-> FALSE, issues |-> <<text>>]

Raise == [raised |-> TRUE, issues |-> <<>>]

\* one pass of a loop after the passes before it
Then(before, pass) ==
    IF before.raised THEN before
    ELSE [raised |-> pass.raised, issues |-> before.issues \o pass.issues]

TypeError == [error |-> "TypeError"]

IsError(r) == "error" \in DOMAIN r

\* key.split('.') of a field key; the keys are written whole in the model,
\* those with a dot are listed here with their parts
DottedKeys ==
    "buyer.name" :> <<"buyer", "name">>
    @@ "buyer.address.city" :> <<"buyer", "address", "city">>

split(key) == IF key \in DOMAIN DottedKeys THEN DottedKeys[key] ELSE <<key>>

\* ComplianceChecker._get_nested_value
RECURSIVE NestedValue(_, _, _)
NestedValue(value, keys, i) ==
    IF i > Len(keys) THEN value
    ELSE IF type(value) = "dict"
         THEN NestedValue(get(value[2], keys[i]), keys, i + 1)
         ELSE None

_get_nested_value(data, key) == NestedValue(Dict(data), split(key), 1)

\* the test of _check_required_fields without its test for blank strs
IsMissingNone(value) == type(value) = "NoneType"

\* the test of _check_required_fields on a value
IsMissing(value) ==
    type(value) = "NoneType" \/ (type(value) = "str" /\ strip(value[2]) = <<>>)

\* the result of _check_required_fields
FieldResult(missing) ==
    [check_name |-> "Required Fields",
     check_type |-> "REQUIRED_FIELD",
     status |-> IF missing = <<>> THEN "PASS" ELSE "FAIL",
     missing_fields |-> missing,
     severity |-> IF missing # <<>> THEN "CRITICAL" ELSE "None"]

\* ComplianceChecker._check_required_fields
_check_required_fields(required, data) ==
    FieldResult(SelectSeq(required,
                          LAMBDA field : IsMissing(_get_nested_value(data, field))))

\* sig.get('type') and sig.get('signer_role') of the dicts of a list, both
\* kept
SignatureTypesBoth(signatures) ==
    IF type(signatures) # "list" THEN <<>>
    ELSE LET dicts == SelectSeq(signatures[2], LAMBDA sig : type(sig) = "dict")
         IN  [k \in 1..Len(dicts) |-> get(dicts[k][2], "type")]
             \o [k \in 1..Len(dicts) |-> get(dicts[k][2], "signer_role")]

\* sig.get('type') or sig.get('signer_role') of the dicts of a list
SignatureTypes(signatures) ==
    IF type(signatures) # "list" THEN <<>>
    ELSE LET dicts == SelectSeq(signatures[2], LAMBDA sig : type(sig) = "dict")
         IN  [k \in 1..Len(dicts) |->
                 Or(get(dicts[k][2], "type"), get(dicts[k][2], "signer_role"))]

\* the result of _check_signatures
SignatureResult(missing) ==
    [check_name |-> "Signatures",
     check_type |-> "SIGNATURE",
     status |-> IF missing = <<>> THEN "PASS" ELSE "FAIL",
     missing_signatures |-> missing,
     severity |-> IF missing # <<>> THEN "CRITICAL" ELSE "None"]

\* ComplianceChecker._check_signatures
_check_signatures(required, signatures) ==
    SignatureResult(
        SelectSeq(required,
                  LAMBDA req :
                      ~ \E k \in 1..Len(SignatureTypes(signatures)) :
                           /\ type(SignatureTypes(signatures)[k]) = "str"
                           /\ SignatureTypes(signatures)[k][2] = req))

\* ' '.join(clauses) raises TypeError unless clauses is a list (or a str,
\* joined character by character) of str.  (A dict of clauses is not among
\* the calls.)
CanJoin(clauses) ==
    \/ type(clauses) = "str"
    \/ /\ type(clauses) = "list"
       /\ \A k \in 1..Len(clauses[2]) : type(clauses[2][k]) = "str"

JoinClauses(clauses) ==
    IF type(clauses) = "str"
    THEN str_join(<<" ">>, [k \in 1..Len(clauses[2]) |-> <<clauses[2][k]>>])
    ELSE str_join(<<" ">>, [k \in 1..Len(clauses[2]) |-> clauses[2][k][2]])

\* the result of _check_required_clauses
ClauseResult(missing) ==
    [check_name |-> "Required Clauses",
     check_type |-> "CLAUSE_CHECK",
     status |-> IF missing = <<>> THEN "PASS" ELSE "FAIL",
     missing_clauses |-> missing,
     severity |-> IF missing # <<>> THEN "HIGH" ELSE "None"]

\* ComplianceChecker._check_required_clauses
_check_required_clauses(required, clauses) ==
    IF ~ CanJoin(clauses) THEN TypeError
    ELSE ClauseResult(
             SelectSeq(required,
                       LAMBDA clause :
                           ~ contains(lower(JoinClauses(clauses)),
                                      replace(lower(clause), "_", " "))))

\* the formats of _parse_date, in the order tried
DateFormats ==
    <<"%Y-%m-%d", "%m/%d/%Y", "%d/%m/%Y", "%Y-%m-%dT%H:%M:%S", "%Y-%m-%d %H:%M:%S">>

RECURSIVE TryFormats(_, _)
\* the datetime of the format tried, or the formats after it on ValueError
FirstParsed(parsed, s, i) ==
    IF type(parsed) # "NoneType" THEN parsed ELSE TryFormats(s, i + 1)

TryFormats(s, i) ==
    IF i > Len(DateFormats) THEN None
    ELSE FirstParsed(strptime(s, DateFormats[i]), s, i)

\* ComplianceChecker._parse_date
_parse_date(date_value) ==
    IF type(date_value) = "datetime" THEN date_value
    ELSE IF type(date_value) = "str" THEN TryFormats(date_value[2], 1)
    ELSE None

\* the checks of _check_dates on the dates parsed; now_ is datetime.now()
closing_date_in_future(closing_date, now_) ==
    IF bool(closing_date) /\ Before(closing_date, now_)
    THEN Issue("Closing date is in the past") ELSE NoIssue

contract_date_before_closing(contract_date, closing_date) ==
    IF bool(contract_date) /\ bool(closing_date)
       /\ ~ Before(contract_date, closing_date)
    THEN Issue("Contract date must be before closing date") ELSE NoIssue

closing_date_reasonable(closing_date, now_) ==
    IF ~ bool(closing_date) THEN NoIssue
    ELSE IF days(closing_date, now_) < 0
    THEN Issue("Closing date is in the past")
    ELSE IF days(closing_date, now_) > 180
    THEN Issue("Closing date is more than 6 months away")
    ELSE NoIssue

inspection_period_valid(inspection_deadline, contract_date) ==
    IF ~ (bool(inspection_deadline) /\ bool(contract_date)) THEN NoIssue
    ELSE IF days(inspection_deadline, contract_date) < 1
    THEN Issue("Inspection period is too short (< 1 day)")
    ELSE IF days(inspection_deadline, contract_date) > 30
    THEN Issue("Inspection period is unusually long (> 30 days)")
    ELSE NoIssue

application_date_valid(app_date, now_) ==
    IF bool(app_date) /\ Before(now_, app_date)
    THEN Issue("Application date is in the future") ELSE NoIssue

effective_date_valid(effective_date, now_) ==
    IF bool(effective_date) /\ Abs(days(effective_date, now_)) > 90
    THEN Issue("Effective date is more than 90 days from today") ELSE NoIssue

execution_date_valid(exec_date, now_) ==
    IF bool(exec_date) /\ Before(now_, exec_date)
    THEN Issue("Execution date is in the future") ELSE NoIssue

\* one pass of the loop of _check_dates
DateCheck(check, data, now_) ==
    CASE check = "closing_date_in_future" ->
            closing_date_in_future(_parse_date(get(data, "closing_date")), now_)
      [] check = "contract_date_before_closing" ->
            contract_date_before_closing(_parse_date(get(data, "contract_date")),
                                         _parse_date(get(data, "closing_date")))
      [] check = "closing_date_reasonable" ->
            closing_date_reasonable(_parse_date(get(data, "closing_date")), now_)
      [] check = "inspection_period_valid" ->
            inspection_period_valid(_parse_date(get(data, "inspection_deadline")),
                                    _parse_date(get(data, "contract_date")))
      [] check = "application_date_valid" ->
            application_date_valid(_parse_date(get(data, "application_date")), now_)
      [] check = "effective_date_valid" ->
            effective_date_valid(_parse_date(get(data, "effective_date")), now_)
      [] check = "execution_date_valid" ->
            execution_date_valid(_parse_date(get(data, "execution_date")), now_)
      [] OTHER -> NoIssue

RECURSIVE DateIssues(_, _, _, _)
DateIssues(checks, data, now_, i) ==
    IF i = 0 THEN NoIssue
    ELSE Then(DateIssues(checks, data, now_, i - 1),
              DateCheck(checks[i], data, now_))

\* the status of the date check capped at WARNING, as the status of the
\* amount check is
DateStatusCapped(issues) == IF issues = <<>> THEN "PASS" ELSE "WARNING"

\* status of _check_dates
DateStatus(issues) ==
    IF issues = <<>> THEN "PASS"
    ELSE IF Len(issues) = 1 THEN "WARNING" ELSE "FAIL"

\* the result of _check_dates
DateResult(issues) ==
    [check_name |-> "Date Consistency",
     check_type |-> "DATE_CHECK",
     status |-> DateStatus(issues),
     issues |-> issues,
     severity |-> IF Len(issues) > 1 THEN "HIGH"
                  ELSE IF issues # <<>> THEN "MEDIUM" ELSE "None"]

\* ComplianceChecker._check_dates
_check_dates(checks, data, now_) ==
    DateResult(DateIssues(checks, data, now_, Len(checks)).issues)

\* ComplianceChecker._parse_amount
_parse_amount(amount_value) ==
    IF type(amount_value) = "number" THEN amount_value
    ELSE IF type(amount_value) = "str"
         THEN float(re_sub({"$", ","}, amount_value[2]))
         ELSE None

\* the values the generator of fees_reasonable hands to sum(): for f in
\* fees raises unless fees can be iterated; the items that are no dict (the
\* characters of a str, the keys of a dict) are passed over
CanIterate(fees) == type(fees) \in {"list", "str", "dict"}

FeeAmounts(fees) ==
    IF type(fees) # "list" THEN <<>>
    ELSE LET dicts == SelectSeq(fees[2], LAMBDA f : type(f) = "dict")
         IN  [k \in 1..Len(dicts) |->
                 _parse_amount(dict_get(dicts[k][2], "amount", Number(0, 1)))]

\* sum() of the amounts, none of them None
RECURSIVE sum(_)
sum(amounts) ==
    IF amounts = <<>> THEN <<0, 1>>
    ELSE Plus(sum(SubSeq(amounts, 1, Len(amounts) - 1)), amounts[Len(amounts)][2])

\* the checks of _check_amounts on the amounts parsed
loan_amount_less_than_price(loan_amount, sale_price) ==
    IF bool(loan_amount) /\ bool(sale_price) /\ Gt(loan_amount[2], sale_price[2])
    THEN Issue("Loan amount (${loan_amount:,.2f}) exceeds sale price (${sale_price:,.2f})")
    ELSE NoIssue

fees_reasonable(fees, amounts, sale_price) ==
    IF ~ CanIterate(fees) THEN Raise
    ELSE IF \E k \in 1..Len(amounts) : type(amounts[k]) = "NoneType" THEN Raise
    ELSE IF bool(sale_price) /\ Gt(sum(amounts), Times(sale_price[2], <<1, 10>>))
    THEN Issue("Total fees (${total_fees:,.2f}) exceed 10% of sale price")
    ELSE NoIssue

PercentageIssue(percentage) ==
    IF Gt(<<1, 2>>, percentage)
    THEN Issue("Earnest money ({percentage:.1f}%) is very low (< 0.5%)")
    ELSE IF Gt(percentage, <<10, 1>>)
    THEN Issue("Earnest money ({percentage:.1f}%) is very high (> 10%)")
    ELSE NoIssue

earnest_money_reasonable(earnest, purchase_price) ==
    IF bool(earnest) /\ bool(purchase_price)
    THEN PercentageIssue(Times(Divide(earnest[2], purchase_price[2]), <<100, 1>>))
    ELSE NoIssue

purchase_price_positive(price) ==
    IF bool(price) /\ ~ Gt(price[2], <<0, 1>>)
    THEN Issue("Purchase price must be positive") ELSE NoIssue

loan_amount_positive(loan) ==
    IF bool(loan) /\ ~ Gt(loan[2], <<0, 1>>)
    THEN Issue("Loan amount must be positive") ELSE NoIssue

income_sufficient(income, loan_amount) ==
    IF bool(income) /\ bool(loan_amount)
       /\ Gt(Times(loan_amount[2], <<5, 1000>>),
             Times(IF Gt(income[2], <<100000, 1>>)
                   THEN Divide(income[2], <<12, 1>>) ELSE income[2],
                   <<43, 100>>))
    THEN Issue("Debt-to-income ratio may be too high (> 43%)") ELSE NoIssue

coverage_amount_reasonable(coverage, property_value) ==
    IF bool(coverage) /\ bool(property_value)
       /\ Gt(property_value[2], coverage[2])
    THEN Issue("Coverage amount (${coverage:,.2f}) is less than property value (${property_value:,.2f})")
    ELSE NoIssue

\* one pass of the loop of _check_amounts
AmountCheck(check, data) ==
    CASE check = "loan_amount_less_than_price" ->
            loan_amount_less_than_price(
                _parse_amount(get(data, "loan_amount")),
                _parse_amount(Or(get(data, "sale_price"), get(data, "purchase_price"))))
      [] check = "fees_reasonable" ->
            fees_reasonable(dict_get(data, "fees", List(<<>>)),
                            FeeAmounts(dict_get(data, "fees", List(<<>>))),
                            _parse_amount(get(data, "sale_price")))
      [] check = "earnest_money_reasonable" ->
            earnest_money_reasonable(_parse_amount(get(data, "earnest_money")),
                                     _parse_amount(get(data, "purchase_price")))
      [] check = "purchase_price_positive" ->
            purchase_price_positive(_parse_amount(get(data, "purchase_price")))
      [] check = "loan_amount_positive" ->
            loan_amount_positive(_parse_amount(get(data, "loan_amount")))
      [] check = "income_sufficient" ->
            income_sufficient(_parse_amount(get(data, "income")),
                              _parse_amount(get(data, "loan_amount")))
      [] check = "coverage_amount_reasonable" ->
            coverage_amount_reasonable(
                _parse_amount(get(data, "coverage_amount")),
                _parse_amount(Or(get(data, "property_value"), get(data, "purchase_price"))))
      [] OTHER -> NoIssue

RECURSIVE AmountIssues(_, _, _)
AmountIssues(checks, data, i) ==
    IF i = 0 THEN NoIssue
    ELSE Then(AmountIssues(checks, data, i - 1), AmountCheck(checks[i], data))

\* the result of a check that fails on more than one issue, as the date
\* check does
IssuesResultFailing(loop, name, kind, severity) ==
    IF loop.raised THEN TypeError
    ELSE [check_name |-> name,
          check_type |-> kind,
          status |-> DateStatus(loop.issues),
          issues |-> loop.issues,
          severity |-> IF loop.issues # <<>> THEN severity ELSE "None"]

\* the result of a check that raises or collects issues into a warning
IssuesResult(loop, name, kind, severity) ==
    IF loop.raised THEN TypeError
    ELSE [check_name |-> name,
          check_type |-> kind,
          status |-> IF loop.issues = <<>> THEN "PASS" ELSE "WARNING",
          issues |-> loop.issues,
          severity |-> IF loop.issues # <<>> THEN severity ELSE "None"]

\* ComplianceChecker._check_amounts
_check_amounts(checks, data) ==
    IssuesResult(AmountIssues(checks, data, Len(checks)),
                 "Amount Validation", "AMOUNT_CHECK", "MEDIUM")

Letters == {UpperLetters[k] : k \in 1..26} \cup {LowerLetters[k] : k \in 1..26}

\* `$` of a pattern matches at the end and before a line end that ends the
\* str
WithoutLastNewline(s) ==
    IF s # <<>> /\ s[Len(s)] = "\n" THEN SubSeq(s, 1, Len(s) - 1) ELSE s

AllIn(s, lo, hi, chars) == \A k \in lo..hi : s[k] \in chars

\* '^[a-zA-Z0-9._%+-]+@[a-zA-Z0-9.-]+\.[a-zA-Z]{2,}$' matches at (at, dot)
EmailMatch(s, at, dot) ==
    /\ at >= 2 /\ s[at] = "@"
    /\ AllIn(s, 1, at - 1, Letters \cup Digits \cup {".", "_", "%", "+", "-"})
    /\ dot >= at + 2 /\ s[dot] = "."
    /\ AllIn(s, at + 1, dot - 1, Letters \cup Digits \cup {".", "-"})
    /\ Len(s) >= dot + 2
    /\ AllIn(s, dot + 1, Len(s), Letters)

\* ComplianceChecker._is_valid_email
_is_valid_email(email) ==
    \E t \in {email, WithoutLastNewline(email)} :
        \E at \in 1..Len(t) : \E dot \in 1..Len(t) : EmailMatch(t, at, dot)

\* ComplianceChecker._is_valid_phone
_is_valid_phone(phone) ==
    \E cleaned \in {re_sub({"-", "(", ")", "."} \cup Whitespace, phone)} :
        Len(cleaned) \in {10, 11} /\ IsDigits(cleaned)

\* ComplianceChecker._is_valid_ssn
_is_valid_ssn(ssn) ==
    \E cleaned \in {re_sub({"-"}, ssn)} :
        \E t \in {cleaned, WithoutLastNewline(cleaned)} :
            Len(t) = 9 /\ IsDigits(t)

\* len(x): TypeError for a value without a length
HasLen(v) == type(v) \in {"str", "list", "dict"}

len(v) == IF type(v) = "dict" THEN Cardinality(DOMAIN v[2]) ELSE Len(v[2])

\* the checks of _check_format on the values read; re.match raises
\* TypeError for a value that is no str
email_format(email) ==
    IF ~ bool(email) THEN NoIssue
    ELSE IF type(email) # "str" THEN Raise
    ELSE IF ~ _is_valid_email(email[2])
    THEN Issue("Invalid email format: {email}") ELSE NoIssue

phone_format(phone) ==
    IF ~ bool(phone) THEN NoIssue
    ELSE IF type(phone) # "str" THEN Raise
    ELSE IF ~ _is_valid_phone(phone[2])
    THEN Issue("Invalid phone format: {phone}") ELSE NoIssue

ssn_format(ssn) ==
    IF ~ bool(ssn) THEN NoIssue
    ELSE IF type(ssn) # "str" THEN Raise
    ELSE IF ~ _is_valid_ssn(ssn[2])
    THEN Issue("Invalid SSN format") ELSE NoIssue

legal_description_format(legal_desc) ==
    IF ~ bool(legal_desc) THEN NoIssue
    ELSE IF ~ HasLen(legal_desc) THEN Raise
    ELSE IF len(legal_desc) < 20
    THEN Issue("Legal description appears incomplete") ELSE NoIssue

\* one pass of the loop of _check_format
FormatCheck(check, data) ==
    CASE check = "email_format" ->
            email_format(Or(get(data, "email"), get(data, "applicant_email")))
      [] check = "phone_format" ->
            phone_format(Or(get(data, "phone"), get(data, "applicant_phone")))
      [] check = "ssn_format" -> ssn_format(get(data, "ssn"))
      [] check = "legal_description_format" ->
            legal_description_format(get(data, "legal_description"))
      [] OTHER -> NoIssue

RECURSIVE FormatIssues(_, _, _)
FormatIssues(checks, data, i) ==
    IF i = 0 THEN NoIssue
    ELSE Then(FormatIssues(checks, data, i - 1), FormatCheck(checks[i], data))

\* ComplianceChecker._check_format
_check_format(checks, data) ==
    IssuesResult(FormatIssues(checks, data, Len(checks)),
                 "Format Validation", "FORMAT_CHECK", "LOW")

\* rules.get(category, {}) of check_compliance, made on category.upper()
\* as get_category_rules makes it
CategoryRulesUpper(rules_, category) == dict_get(rules_, upper(category), EmptyRules)

\* rules = self.rules.get(category, {})
CategoryRules(rules_, category) == dict_get(rules_, category, EmptyRules)

\* rules.get(name, [])
RuleList(category_rules, name) == dict_get(category_rules, name, <<>>)

One(condition) == IF condition THEN 1 ELSE 0

\* critical_issues of check_compliance with the date check left out
CriticalIssuesWithoutDates(field_check, signature_check, clause_checks, date_check) ==
    One(field_check.status = "FAIL") + One(signature_check.status = "FAIL")
    + One(clause_checks # <<>> /\ clause_checks[1].status = "FAIL")

\* critical_issues of check_compliance: one for each of the field,
\* signature, clause and date checks that failed
critical_issues(field_check, signature_check, clause_checks, date_check) ==
    One(field_check.status = "FAIL") + One(signature_check.status = "FAIL")
    + One(clause_checks # <<>> /\ clause_checks[1].status = "FAIL")
    + One(date_check.status = "FAIL")

\* warnings that also counts a failed field check
WarningsCountingFailedFields(field_check, date_check, amount_check) ==
    One(field_check.status \in {"WARNING", "FAIL"})
    + One(date_check.status = "WARNING")
    + One(amount_check.status = "WARNING")

\* warnings of check_compliance
warnings(field_check, date_check, amount_check) ==
    One(field_check.status = "WARNING") + One(date_check.status = "WARNING")
    + One(amount_check.status = "WARNING")

\* suggestions of check_compliance
suggestions(format_check) == One(format_check.status = "WARNING")

\* overall_status with PARTIALLY_COMPLIANT from two warnings on (>= 2)
OverallStatusFromTwo(critical, warns) ==
    IF critical > 0 THEN "NON_COMPLIANT"
    ELSE IF warns >= 2 THEN "PARTIALLY_COMPLIANT"
    ELSE IF warns > 0 THEN "NEEDS_REVIEW"
    ELSE "COMPLIANT"

\* "Determine overall status"
overall_status(critical, warns) ==
    IF critical > 0 THEN "NON_COMPLIANT"
    ELSE IF warns > 2 THEN "PARTIALLY_COMPLIANT"
    ELSE IF warns > 0 THEN "NEEDS_REVIEW"
    ELSE "COMPLIANT"

\* the result of check_compliance from its checks
Report(field_check, signature_check, clause_checks, date_check, amount_check, format_check, critical, warns) ==
    [overall_status |-> overall_status(critical, warns),
     checks |-> <<field_check, signature_check>> \o clause_checks
                \o <<date_check, amount_check, format_check>>,
     critical_issues |-> critical,
     warnings |-> warns,
     suggestions |-> suggestions(format_check),
     missing_signatures |-> signature_check.missing_signatures,
     missing_fields |-> field_check.missing_fields,
     date_inconsistencies |-> date_check.issues,
     format_issues |-> format_check.issues,
     requires_review |-> critical > 0 \/ warns > 2]

\* the checks of check_compliance in the order made; the first that raises
\* ends the call
RunChecks(field_check, signature_check, clause_checks, date_check, amount_check, format_check) ==
    IF (clause_checks # <<>> /\ IsError(clause_checks[1]))
       \/ IsError(amount_check) \/ IsError(format_check)
    THEN TypeError
    ELSE Report(field_check, signature_check, clause_checks, date_check,
                amount_check, format_check,
                critical_issues(field_check, signature_check, clause_checks,
                                date_check),
                warnings(field_check, date_check, amount_check))

\* "Check required clauses", made for a rule set without required_clauses
\* too, as the other checks are (rules.get('required_clauses', []))
ClauseChecksAlways(category_rules, extracted_data) ==
    <<_check_required_clauses(
          RuleList(category_rules, "required_clauses"),
          dict_get(extracted_data, "clauses", List(<<>>)))>>

\* "Check required clauses": the clause check is made, and appended to
\* checks, only if 'required_clauses' in rules
ClauseChecks(category_rules, extracted_data) ==
    IF "required_clauses" \in DOMAIN category_rules
    THEN <<_check_required_clauses(
               category_rules["required_clauses"],
               dict_get(extracted_data, "clauses", List(<<>>)))>>
    ELSE <<>>

\* the checks of a rule set on extracted_data
CheckRules(category_rules, extracted_data, now_) ==
    RunChecks(
        _check_required_fields(RuleList(category_rules, "required_fields"),
                               extracted_data),
        _check_signatures(RuleList(category_rules, "required_signatures"),
                          dict_get(extracted_data, "signatures", List(<<>>))),
        ClauseChecks(category_rules, extracted_data),
        _check_dates(RuleList(category_rules, "date_checks"), extracted_data, now_),
        _check_amounts(RuleList(category_rules, "amount_checks"), extracted_data),
        _check_format(RuleList(category_rules, "format_checks"), extracted_data))

\* self.rules after check_compliance had the category looked up with
\* setdefault, which adds a missing key
RulesAfterSetDefault(rules_, category) ==
    IF category \in DOMAIN rules_ THEN rules_
    ELSE [c \in DOMAIN rules_ \cup {category} |->
              IF c = category THEN EmptyRules ELSE rules_[c]]

\* self.rules after check_compliance: the category is looked up with
\* dict.get, which adds no key, the rule lists are only read, and nothing
\* is assigned to self.rules
RulesAfter(rules_, category) == rules_

\* ComplianceChecker.check_compliance; transaction_type is not read
check_compliance(rules_, category, extracted_data, now_) ==
    CheckRules(CategoryRules(rules_, category), extracted_data, now_)

(***************************************************************************)
(* The calls of the change detector                                       *)
(***************************************************************************)
\* the most lines of a text
MaxLines == 2

\* the most non-critical additions of a direct _determine_significance call
MaxBulk == 21

\* the most critical entries of each kind in such a call
MaxCritical == 2

SeqsUpTo(S, n) == UNION {[1..k -> S] : k \in 0..n}

\* the texts of at most MaxLines lines of S, each line ended by "\n"
TextsOf(S) ==
    {join([k \in 1..Len(ls) |-> ls[k] \o <<"\n">>]) : ls \in SeqsUpTo(S, MaxLines)}

\* the same texts with the last line end left out
Unterminated(texts) ==
    {SubSeq(t, 1, Len(t) - 1) : t \in texts \ {<<>>}}

TextCalls ==
    [op : {"detect_text_changes"},
     old_text : TextsOf(PairingLines), new_text : TextsOf(PairingLines)]
    \cup
    [op : {"detect_text_changes"},
     old_text : TextsOf(KeywordLines) \cup Unterminated(TextsOf(KeywordLines)),
     new_text : TextsOf(KeywordLines) \cup Unterminated(TextsOf(KeywordLines))]
    \cup
    [op : {"detect_text_changes"},
     old_text : TextsOf(PriceLines) \cup Unterminated(TextsOf(PriceLines)),
     new_text : TextsOf(PriceLines) \cup Unterminated(TextsOf(PriceLines))]

Rep(x, k) == [i \in 1..k |-> x]

\* the modifications handed to _determine_significance directly: the
\* critical keyword on the old side, on the new side, on both in turn, then
\* on neither
DirectModifications(critical, plain) ==
    [k \in 1..critical |->
        IF k % 3 = 1 THEN [old |-> LineLoan, new |-> LineFee]
        ELSE IF k % 3 = 2 THEN [old |-> LineFee, new |-> LineLoan2]
        ELSE [old |-> LineLoan, new |-> LineLoan2]]
    \o Rep([old |-> LineFee, new |-> LineFeeIndented], plain)

SignificanceCalls ==
    {[op |-> "_determine_significance",
      additions |-> Rep(LineLoan, n[1]) \o Rep(LineFee, n[2]),
      deletions |-> Rep(LineLoan2, n[3]) \o Rep(LineFee, n[4]),
      modifications |-> DirectModifications(n[5], n[6])] :
        n \in (0..MaxCritical) \X (0..MaxBulk) \X (0..MaxCritical) \X (0..1)
              \X (0..MaxCritical) \X (0..1)}

NoReturn == [none |-> TRUE]

\* a file system with no file in it
NoFiles == <<>>

TextInit ==
    /\ call \in TextCalls \cup SignificanceCalls
    /\ pc = "call"
    /\ ret = NoReturn
    /\ rules = _load_default_rules
    /\ critical_keywords = CriticalKeywords
    /\ now = datetime(2025, 6, 15, 12, 0, 0)
    /\ PDF_AVAILABLE = TRUE
    /\ files = NoFiles

DetectTextChanges ==
    /\ pc = "call"
    /\ call.op = "detect_text_changes"
    /\ ret' = detect_text_changes(critical_keywords, call.old_text, call.new_text)
    /\ pc' = "return"
    /\ UNCHANGED <<call, rules, critical_keywords, now, PDF_AVAILABLE, files>>

DetermineSignificance ==
    /\ pc = "call"
    /\ call.op = "_determine_significance"
    /\ ret' = [significance |->
                  _determine_significance(critical_keywords, call.additions,
                                          call.deletions, call.modifications)]
    /\ pc' = "return"
    /\ UNCHANGED <<call, rules, critical_keywords, now, PDF_AVAILABLE, files>>

TextNext == DetectTextChanges \/ DetermineSignificance

SpecText == TextInit /\ [][TextNext]_vars

(***************************************************************************)
(* Properties of the text change detector                                  *)
(***************************************************************************)
TextReturned == pc = "return" /\ call.op = "detect_text_changes"

SignificanceReturned == pc = "return" /\ call.op = "_determine_significance"

InModifications(x, modifications) ==
    \E k \in 1..Len(modifications) :
        modifications[k].old = x \/ modifications[k].new = x

Range(list) == {list[k] : k \in 1..Len(list)}

\* the number of the three collections of a change set that hold line x
PlacesOf(x, r) ==
    (IF InList(x, r.additions) THEN 1 ELSE 0)
    + (IF InList(x, r.deletions) THEN 1 ELSE 0)
    + (IF InModifications(x, r.modifications) THEN 1 ELSE 0)

\* C1: in every change set returned by detect_text_changes a line string
\* is in at most one of additions, deletions and the modification records.
C1_LineInAtMostOnePlace ==
    TextReturned =>
        \A x \in Range(ret.additions) \cup Range(ret.deletions) :
            PlacesOf(x, ret) <= 1

\* C2: detect_text_changes(T, T) returns no additions, deletions or
\* modifications, change_percentage 0 and significance LOW, for every T.
C2_IdenticalTextsNoChange ==
    (TextReturned /\ call.old_text = call.new_text) =>
        /\ ret.additions = <<>>
        /\ ret.deletions = <<>>
        /\ ret.modifications = <<>>
        /\ ret.change_percentage = 0
        /\ ret.significance = "LOW"

\* a text of two lines, one of them with a critical keyword, compared with
\* itself
C2_Witness ==
    /\ TextReturned
    /\ call.old_text = call.new_text
    /\ Len(splitlines(call.old_text, <<>>)) = 2
    /\ _contains_critical_keyword(CriticalKeywords, call.old_text)
    /\ ret.significance = "LOW"

Paired(i, j, modifications) ==
    \E k \in 1..Len(modifications) :
        modifications[k].i = i /\ modifications[k].j = j

\* deletion i and addition j of the parsed lists are each other's only
\* candidates: no other addition is above the threshold for i, no other
\* deletion for j
OnlyCandidates(D, A, i, j) ==
    /\ \A j2 \in 1..Len(A) : j2 # j => ~Gt(_calculate_similarity(D[i], A[j2]), <<6, 10>>)
    /\ \A i2 \in 1..Len(D) : i2 # i => ~Gt(_calculate_similarity(D[i2], A[j]), <<6, 10>>)

\* C3: a deletion and an addition of similarity 0.6 or less are never
\* paired; a deletion and an addition of similarity 0.95 that are each
\* other's only candidates are paired.
C3_StrictThreshold ==
    TextReturned =>
        LET parsed == ParsedDiff(call.old_text, call.new_text)
            D == parsed[1]
            A == parsed[2]
            M == ret.modifications
        IN  /\ \A k \in 1..Len(M) : Gt(_calculate_similarity(M[k].old, M[k].new), <<6, 10>>)
            /\ \A i \in 1..Len(D), j \in 1..Len(A) :
                  /\ ~Gt(_calculate_similarity(D[i], A[j]), <<6, 10>>) => ~Paired(i, j, M)
                  /\ (Eq(_calculate_similarity(D[i], A[j]), <<95, 100>>) /\ OnlyCandidates(D, A, i, j))
                        => /\ Paired(i, j, M)
                           /\ InModifications(D[i], M)
                           /\ InModifications(A[j], M)

\* one deletion at exactly 0.6 from the only addition stays a deletion,
\* and the other deletion, at 0.95 from it, is paired with it
C3_Witness ==
    /\ TextReturned
    /\ LET parsed == ParsedDiff(call.old_text, call.new_text)
           D == parsed[1]
           A == parsed[2]
       IN  /\ Len(D) = 2 /\ Len(A) = 1
           /\ Eq(_calculate_similarity(D[1], A[1]), <<6, 10>>)
           /\ Eq(_calculate_similarity(D[2], A[1]), <<95, 100>>)
           /\ ret.deletions = <<D[1]>>
           /\ Len(ret.modifications) = 1
           /\ ret.modifications[1].old = D[2]
           /\ ret.modifications[1].new = A[1]

\* C4: each deletion, in list order, is paired with the not yet matched
\* addition of highest similarity above 0.6, the lowest index on a tie;
\* no index is used twice and the records are in deletion order.
C4_GreedyInDeletionOrder ==
    TextReturned =>
        LET parsed == ParsedDiff(call.old_text, call.new_text)
            D == parsed[1]
            A == parsed[2]
            M == ret.modifications
            sim(i, j) == _calculate_similarity(D[i], A[j])
            Used(i) == {M[k].j : k \in {k2 \in 1..Len(M) : M[k2].i < i}}
            Cand(i) == {j \in (1..Len(A)) \ Used(i) : Gt(sim(i, j), <<6, 10>>)}
            Best(i) == CHOOSE j \in Cand(i) :
                          \A j2 \in Cand(i) :
                              \/ Gt(sim(i, j), sim(i, j2))
                              \/ Eq(sim(i, j), sim(i, j2)) /\ j <= j2
        IN  /\ \A k1, k2 \in 1..Len(M) :
                  k1 < k2 => M[k1].i < M[k2].i /\ M[k1].j # M[k2].j
            /\ \A i \in 1..Len(D) :
                  IF Cand(i) = {}
                  THEN \A k \in 1..Len(M) : M[k].i # i
                  ELSE \E k \in 1..Len(M) :
                          /\ M[k].i = i
                          /\ M[k].j = Best(i)
                          /\ M[k].old = D[i]
                          /\ M[k].new = A[Best(i)]

\* the first deletion has two different additions at the same similarity
\* and takes the first; the second deletion takes the one left
C4_Witness ==
    /\ TextReturned
    /\ LET parsed == ParsedDiff(call.old_text, call.new_text)
           D == parsed[1]
           A == parsed[2]
       IN  /\ Len(D) = 2 /\ Len(A) = 2 /\ A[1] # A[2]
           /\ Eq(_calculate_similarity(D[1], A[1]), _calculate_similarity(D[1], A[2]))
           /\ ~Gt(_calculate_similarity(D[2], A[2]), _calculate_similarity(D[2], A[1]))
           /\ Len(ret.modifications) = 2
           /\ ret.modifications[1].new = A[1]
           /\ ret.modifications[2].new = A[2]

\* the final change set of a call: the one returned by detect_text_changes,
\* or the one handed to _determine_significance
FinalChangeSet ==
    IF call.op = "detect_text_changes"
    THEN [additions |-> ret.additions, deletions |-> ret.deletions,
          modifications |-> ret.modifications]
    ELSE [additions |-> call.additions, deletions |-> call.deletions,
          modifications |-> call.modifications]

IsCritical(text) ==
    \E k \in 1..Len(CriticalKeywords) : contains(lower(text), CriticalKeywords[k])

\* c of C5: the entries of the change set with a critical term
CriticalCount(cs) ==
    Cardinality({k \in 1..Len(cs.additions) : IsCritical(cs.additions[k])})
    + Cardinality({k \in 1..Len(cs.deletions) : IsCritical(cs.deletions[k])})
    + Cardinality({k \in 1..Len(cs.modifications) :
                      IsCritical(cs.modifications[k].old)
                      \/ IsCritical(cs.modifications[k].new)})

\* n of C5
TotalCount(cs) == Len(cs.additions) + Len(cs.deletions) + Len(cs.modifications)

\* C5: significance is CRITICAL if c >= 3, else HIGH if c >= 1, else MEDIUM
\* if n > 20, else LOW, with c and n counted on the final change set.
C5_SignificancePolicy ==
    (TextReturned \/ SignificanceReturned) =>
        LET c == CriticalCount(FinalChangeSet)
            n == TotalCount(FinalChangeSet)
        IN  ret.significance =
                IF c >= 3 THEN "CRITICAL"
                ELSE IF c >= 1 THEN "HIGH"
                ELSE IF n > 20 THEN "MEDIUM"
                ELSE "LOW"

\* twenty changes, none critical: LOW
C5_Witness ==
    /\ SignificanceReturned
    /\ CriticalCount(FinalChangeSet) = 0
    /\ TotalCount(FinalChangeSet) = 20
    /\ ret.significance = "LOW"

Max(x, y) == IF x >= y THEN x ELSE y

\* C6: change_percentage is 100 * (|additions| + |deletions| +
\* |modifications|) / max(1, line_count(new_text)) (here to the two
\* decimals the report keeps), so 100 * k and not 0 when new_text has no
\* line and old_text has k.
C6_ChangePercentage ==
    TextReturned =>
        ret.change_percentage =
            round(100 * TotalCount(FinalChangeSet),
                  Max(1, Len(splitlines(call.new_text, <<>>))), 100)

(***************************************************************************)
(* The calls of the compliance checker                                     *)
(***************************************************************************)
\* the most fields of the document that differ from CompleteDocument
MaxEdits == 2

\* the categories of the calls: the keys of the catalog, the same names in
\* lower case, one in mixed case, one name that is in no case a key, and ''
Categories ==
    DOMAIN _load_default_rules
    \cup {lower(c) : c \in DOMAIN _load_default_rules}
    \cup {<<"L","o","a","n","_","A","p","p","l","i","c","a","t","i","o","n">>, <<"L","E","A","S","E">>, <<>>}

AllSignatures ==
    List(<<Dict("type" :> Str(<<"b","u","y","e","r">>) @@ "date" :> Str(<<"2","0","2","5","-","0","6","-","0","1">>)),
           Dict("type" :> Str(<<"s","e","l","l","e","r">>)),
           Dict("signer_role" :> Str(<<"c","l","o","s","i","n","g","_","a","g","e","n","t">>)),
           Dict("type" :> Str(<<"a","p","p","l","i","c","a","n","t">>)),
           Dict("type" :> Str(<<"i","n","s","u","r","e","r">>)),
           Dict("type" :> Str(<<>>) @@ "signer_role" :> Str(<<"o","w","n","e","r">>)),
           Dict("type" :> Str(<<"g","r","a","n","t","o","r">>)),
           Dict("type" :> Str(<<"n","o","t","a","r","y">>) @@ "signer_role" :> Str(<<"w","i","t","n","e","s","s">>))>>)

\* a list that lacks most roles: one item is no dict, one has an empty type
FewSignatures ==
    List(<<Dict("signer_role" :> Str(<<"b","u","y","e","r">>)),
           Str(<<"s","e","l","l","e","r">>),
           Dict("type" :> Str(<<>>) @@ "signer_role" :> Str(<<"g","r","a","n","t","o","r">>)),
           Dict("type" :> Str(<<"i","n","s","u","r","e","r">>) @@ "signer_role" :> Str(<<"o","w","n","e","r">>))>>)

AllClauses ==
    List(<<Str(<<"C","o","n","t","i","n","g","e","n","c","i","e","s",":"," ","s","a","l","e"," ","o","f"," ","t","h","e"," ","b","u","y","e","r","'","s"," ","h","o","m","e">>),
           Str(<<"I","N","S","P","E","C","T","I","O","N"," ","P","E","R","I","O","D"," ","o","f"," ","9"," ","d","a","y","s">>),
           Str(<<"F","i","n","a","n","c","i","n","g"," ","t","e","r","m","s"," ","a","n","d"," ","l","e","g","a","l"," ","d","e","s","c","r","i","p","t","i","o","n"," ","a","t","t","a","c","h","e","d">>)>>)

\* extracted_data that passes every check of every category at the instants
\* of Nows
CompleteDocument ==
    "buyer_name" :> Str(<<"J","o","h","n"," ","D","o","e">>)
    @@ "seller_name" :> Str(<<"J","a","n","e"," ","S","m","i","t","h">>)
    @@ "property_address" :> Str(<<"1","2","3"," ","M","a","i","n"," ","S","t">>)
    @@ "sale_price" :> Str(<<"4","5","0","0","0","0">>)
    @@ "purchase_price" :> Str(<<"4","5","0","0","0","0">>)
    @@ "earnest_money" :> Str(<<"5","0","0","0">>)
    @@ "loan_amount" :> Str(<<"3","6","0","0","0","0">>)
    @@ "closing_date" :> Str(<<"2","0","2","5","-","0","7","-","1","5">>)
    @@ "contract_date" :> Str(<<"2","0","2","5","-","0","6","-","0","1">>)
    @@ "inspection_period" :> Str(<<"9"," ","d","a","y","s">>)
    @@ "inspection_deadline" :> Str(<<"2","0","2","5","-","0","6","-","1","0">>)
    @@ "applicant_name" :> Str(<<"J","o","h","n"," ","D","o","e">>)
    @@ "ssn" :> Str(<<"1","2","3","-","4","5","-","6","7","8","9">>)
    @@ "employment_info" :> Dict("employer" :> Str(<<"A","C","M","E">>))
    @@ "income" :> Str(<<"1","2","0","0","0","0">>)
    @@ "application_date" :> Str(<<"2","0","2","5","-","0","6","-","0","1"," ","0","9",":","3","0",":","0","0">>)
    @@ "owner_name" :> Str(<<"J","a","n","e"," ","S","m","i","t","h">>)
    @@ "policy_number" :> Number(1001, 1)
    @@ "coverage_amount" :> Str(<<"4","5","0","0","0","0">>)
    @@ "property_value" :> Str(<<"4","5","0",",","0","0","0">>)
    @@ "effective_date" :> Str(<<"2","0","2","5","-","0","7","-","0","1">>)
    @@ "grantor_name" :> Str(<<"J","a","n","e"," ","S","m","i","t","h">>)
    @@ "grantee_name" :> Str(<<"J","o","h","n"," ","D","o","e">>)
    @@ "property_description" :> Str(<<"L","o","t"," ","5">>)
    @@ "consideration_amount" :> Number(10, 1)
    @@ "execution_date" :> Str(<<"2","0","2","5","-","0","6","-","0","1">>)
    @@ "legal_description" :> Str(<<"L","o","t"," ","5",","," ","B","l","o","c","k"," ","2",","," ","T","r","a","c","t"," ","1","9","9","9">>)
    @@ "fees" :> List(<<Dict("name" :> Str(<<"e","s","c","r","o","w">>) @@ "amount" :> Str(<<"$","1",",","0","0","0",".","5","0">>)),
                        Dict("name" :> Str(<<"s","u","r","v","e","y">>))>>)
    @@ "email" :> Str(<<"j","o","h","n",".","d","o","e","@","e","x","a","m","p","l","e",".","c","o","m">>)
    @@ "phone" :> Str(<<"(","5","5","5",")"," ","1","2","3","-","4","5","6","7">>)
    @@ "signatures" :> AllSignatures
    @@ "clauses" :> AllClauses

\* the key of an edit is left out of the document
Absent == <<"absent", <<>>>>

\* the fields a document may differ in from CompleteDocument
Edits ==
    << <<"buyer_name", Str(<<" "," ">>)>>,
       <<"seller_name", Absent>>,
       <<"applicant_name", None>>,
       <<"owner_name", Str(<<>>)>>,
       <<"grantor_name", Absent>>,
       <<"signatures", List(<<>>)>>,
       <<"signatures", FewSignatures>>,
       <<"clauses", Absent>>,
       <<"clauses", None>>,
       <<"closing_date", Str(<<"2","0","2","5","-","0","1","-","1","5">>)>>,
       <<"closing_date", Str(<<"0","6","/","1","5","/","2","0","2","6">>)>>,
       <<"closing_date", Str(<<"s","o","o","n">>)>>,
       <<"contract_date", Str(<<"2","0","2","5","-","0","8","-","0","1","T","0","0",":","0","0",":","0","0">>)>>,
       <<"inspection_deadline", Str(<<"2","0","2","5","-","0","7","-","2","0">>)>>,
       <<"application_date", Str(<<"2","0","2","5","-","1","2","-","0","1">>)>>,
       <<"effective_date", Str(<<"0","1","/","0","2","/","2","0","2","6">>)>>,
       <<"execution_date", Str(<<"3","1","/","1","2","/","2","0","2","5">>)>>,
       <<"loan_amount", Str(<<"$","5","0","0",",","0","0","0",".","0","0">>)>>,
       <<"loan_amount", Str(<<"-","5","0","0">>)>>,
       <<"loan_amount", Number(0, 1)>>,
       <<"purchase_price", Str(<<"0">>)>>,
       <<"purchase_price", Str(<<"-","1","0","0">>)>>,
       <<"earnest_money", Str(<<"1","0","0">>)>>,
       <<"earnest_money", Str(<<"9","0","0","0","0">>)>>,
       <<"fees", List(<<Dict("amount" :> Str(<<"5","0","0","0","0">>))>>)>>,
       <<"fees", List(<<Dict("amount" :> Str(<<"n","/","a">>))>>)>>,
       <<"income", Str(<<"3","0","0","0">>)>>,
       <<"coverage_amount", Str(<<"1","0","0","0","0","0">>)>>,
       <<"email", Str(<<"j","o","h","n",".","d","o","e","@","e","x","a","m","p","l","e">>)>>,
       <<"email", Number(5, 1)>>,
       <<"phone", Str(<<"1","2","3">>)>>,
       <<"ssn", Str(<<"1","2","-","3">>)>>,
       <<"legal_description", Str(<<"L","o","t"," ","5">>)>>,
       <<"closing_date", Str(<<"2","0","2","5","-","0","6","-","1","5">>)>> >>

\* the strictly increasing sequences of at most k edits after edit lo, no
\* two on the same key
RECURSIVE EditChoices(_, _)
EditChoices(k, lo) ==
    IF k = 0 THEN {<<>>}
    ELSE {<<>>} \cup
         UNION {{<<i>> \o rest :
                    rest \in {r \in EditChoices(k - 1, i) :
                                 \A j \in 1..Len(r) : Edits[r[j]][1] # Edits[i][1]}} :
                i \in (lo + 1)..Len(Edits)}

\* data with the key of the edit set to its value, or left out
ApplyEdit(data, edit) ==
    IF edit[2] = Absent
    THEN [key \in DOMAIN data \ {edit[1]} |-> data[key]]
    ELSE (edit[1] :> edit[2]) @@ data

RECURSIVE ApplyEdits(_, _)
ApplyEdits(data, choice) ==
    IF choice = <<>> THEN data
    ELSE ApplyEdit(ApplyEdits(data, Tail(choice)), Edits[Head(choice)])

Documents(k) == {ApplyEdits(CompleteDocument, choice) : choice \in EditChoices(k, 0)}

\* the instants datetime.now() returns
Nows == {datetime(2025, 6, 15, 0, 0, 0), datetime(2025, 6, 15, 12, 0, 0)}

ComplianceCalls ==
    [op : {"check_compliance"}, category : Categories,
     extracted_data : Documents(MaxEdits)]

RouterCalls ==
    [op : {"POST /compliance"}, category : Categories,
     extracted_data : Documents(1)]
    \cup
    [op : {"GET /categories/{category}/rules"}, category : Categories]

\* the bound on the entries of a signatures list passed to
\* _check_signatures
MaxEntries == 2

\* data of _check_required_fields: values nested in dicts, blank strs,
\* None, and values that are neither None nor str
NestedDocuments ==
    {EmptyDict,
     "buyer" :> Dict("name" :> Str(<<"J","o","h","n">>)),
     "buyer" :> Dict("name" :> Str(<<" ","\t">>)),
     "buyer" :> Dict("name" :> None @@ "address" :> Dict("city" :> Str(<<"R","e","n","o">>))),
     "buyer" :> Dict("name" :> Number(0, 1) @@ "address" :> Dict("city" :> Str(<<>>))),
     "buyer" :> Dict("address" :> Str(<<"R","e","n","o">>)),
     "buyer" :> Str(<<"J","o","h","n">>) @@ "buyer.name" :> Str(<<"J","o","h","n">>),
     "buyer" :> None @@ "seller_name" :> Str(<<"\n">>),
     "buyer" :> List(<<>>) @@ "seller_name" :> List(<<>>),
     "buyer" :> Dict(EmptyDict) @@ "seller_name" :> Dict(EmptyDict)}

\* the required fields of the direct calls, in the order given
RequiredFieldLists ==
    {required \in SeqsUpTo({"buyer", "buyer.name", "buyer.address.city", "seller_name"}, 2) :
        Len(required) = 2 => required[1] # required[2]}

\* the items of the signatures lists of the direct calls: a role as type,
\* as signer_role, as both (equal or different roles), with a type that is
\* empty or None, and an item that is no dict
SignatureEntries ==
    {Dict("type" :> Str(<<"b","u","y","e","r">>)),
     Dict("signer_role" :> Str(<<"s","e","l","l","e","r">>)),
     Dict("type" :> Str(<<"b","u","y","e","r">>) @@ "signer_role" :> Str(<<"s","e","l","l","e","r">>)),
     Dict("type" :> Str(<<"s","e","l","l","e","r">>) @@ "signer_role" :> Str(<<"s","e","l","l","e","r">>)),
     Dict("type" :> Str(<<>>) @@ "signer_role" :> Str(<<"b","u","y","e","r">>)),
     Dict("type" :> None @@ "signer_role" :> Str(<<"s","e","l","l","e","r">>)),
     Dict("type" :> Number(1, 1) @@ "signer_role" :> Str(<<"b","u","y","e","r">>)),
     Str(<<"s","e","l","l","e","r">>)}

\* the direct calls of the checks, as the tests make them
HelperCalls ==
    [op : {"_check_required_fields"}, required : RequiredFieldLists,
     data : NestedDocuments]
    \cup
    [op : {"_check_signatures"},
     required : {<<>>, << <<"s","e","l","l","e","r">> >>,
                 << <<"b","u","y","e","r">>, <<"s","e","l","l","e","r">> >>},
     signatures : {List(entries) : entries \in SeqsUpTo(SignatureEntries, MaxEntries)}
                  \cup {None, Dict("type" :> Str(<<"s","e","l","l","e","r">>))}]

ComplianceInit ==
    /\ call \in ComplianceCalls \cup RouterCalls \cup HelperCalls
    /\ pc = "call"
    /\ ret = NoReturn
    /\ rules = _load_default_rules
    /\ critical_keywords = CriticalKeywords
    /\ now \in Nows
    /\ PDF_AVAILABLE = TRUE
    /\ files = NoFiles

\* ComplianceChecker.check_compliance called directly
CheckCompliance ==
    /\ pc = "call"
    /\ call.op = "check_compliance"
    /\ ret' = check_compliance(rules, call.category, call.extracted_data, now)
    /\ rules' = RulesAfter(rules, call.category)
    /\ pc' = "return"
    /\ UNCHANGED <<call, critical_keywords, now, PDF_AVAILABLE, files>>

\* the response of the router from the result of the checker: an exception
\* is answered with status 500
Response(result) ==
    IF IsError(result)
    THEN [status_code |-> 500]
    ELSE [status_code |-> 200, body |-> result]

\* POST /v1/intelligence/compliance
PostCompliance ==
    /\ pc = "call"
    /\ call.op = "POST /compliance"
    /\ ret' = Response(check_compliance(rules, call.category,
                                        call.extracted_data, now))
    /\ pc' = "return"
    /\ UNCHANGED <<call, rules, critical_keywords, now, PDF_AVAILABLE, files>>

\* the response of get_category_rules: 404 on `not rules` (no rule set, or
\* one without a rule)
RulesResponse(category, category_rules) ==
    IF DOMAIN category_rules = {}
    THEN [status_code |-> 404]
    ELSE [status_code |-> 200,
          body |-> [category |-> category, rules |-> category_rules]]

\* GET /v1/intelligence/categories/{category}/rules
GetCategoryRules ==
    /\ pc = "call"
    /\ call.op = "GET /categories/{category}/rules"
    /\ ret' = RulesResponse(call.category,
                            dict_get(rules, upper(call.category), EmptyRules))
    /\ pc' = "return"
    /\ UNCHANGED <<call, rules, critical_keywords, now, PDF_AVAILABLE, files>>

\* ComplianceChecker._check_required_fields called directly
CheckRequiredFields ==
    /\ pc = "call"
    /\ call.op = "_check_required_fields"
    /\ ret' = _check_required_fields(call.required, call.data)
    /\ pc' = "return"
    /\ UNCHANGED <<call, rules, critical_keywords, now, PDF_AVAILABLE, files>>

\* ComplianceChecker._check_signatures called directly
CheckSignatures ==
    /\ pc = "call"
    /\ call.op = "_check_signatures"
    /\ ret' = _check_signatures(call.required, call.signatures)
    /\ pc' = "return"
    /\ UNCHANGED <<call, rules, critical_keywords, now, PDF_AVAILABLE, files>>

ComplianceNext ==
    \/ CheckCompliance
    \/ PostCompliance
    \/ GetCategoryRules
    \/ CheckRequiredFields
    \/ CheckSignatures

SpecCompliance == ComplianceInit /\ [][ComplianceNext]_vars

(***************************************************************************)
(* A caller that makes one call of check_compliance after the other        *)
(***************************************************************************)
\* the most calls the caller makes
MaxCalls == 2

\* the calls the caller chooses from; seq counts the calls made, this one
\* included
SessionCalls ==
    [op : {"check_compliance"}, category : Categories,
     extracted_data : Documents(1), seq : {1}]

SessionInit ==
    /\ call \in SessionCalls
    /\ pc = "call"
    /\ ret = NoReturn
    /\ rules = _load_default_rules
    /\ critical_keywords = CriticalKeywords
    /\ now \in Nows
    /\ PDF_AVAILABLE = TRUE
    /\ files = NoFiles

\* the last call has returned and the caller makes the next
NextCall ==
    /\ pc = "return"
    /\ call.op = "check_compliance"
    /\ "seq" \in DOMAIN call
    /\ call.seq < MaxCalls
    /\ \E next \in SessionCalls : call' = [next EXCEPT !.seq = call.seq + 1]
    /\ ret' = NoReturn
    /\ pc' = "call"
    /\ UNCHANGED <<rules, critical_keywords, now, PDF_AVAILABLE, files>>

SessionNext == CheckCompliance \/ NextCall

SpecSession == SessionInit /\ [][SessionNext]_vars

(***************************************************************************)
(* Page images                                                             *)
(***************************************************************************)
\* A PIL image whose rows come in bands: size is (width, height) and bands
\* the sequence of <<rows, pixel>> from the top, every row of a band filled
\* with the one pixel; a pixel is <<R, G, B>> in mode "RGB" and a number in
\* mode "L"
Image(size, mode, bands) == [size |-> size, mode |-> mode, bands |-> bands]

\* a page image opened lazily whose pixel data cannot be loaded:
\* np.array(img) raises OSError
Truncated == [truncated |-> TRUE]

OSError == [error |-> "image file is truncated"]

\* the number of bands of a mode (Image.getbands)
Bands(mode) ==
    CASE mode = "L"    -> 1
      [] mode = "LA"   -> 2
      [] mode = "RGB"  -> 3
      [] mode = "RGBA" -> 4

\* np.array(img).shape
shape(img) ==
    IF img.mode = "L" THEN <<img.size[2], img.size[1]>>
    ELSE <<img.size[2], img.size[1], Bands(img.mode)>>

\* new_img.resize(size): a copy when the size is the size of the image; to
\* another size, of an image of one colour (one band), where the filter
\* leaves the colour as it is
resize(img, size) ==
    IF img.size = size THEN img
    ELSE Image(size, img.mode, <<<<size[2], img.bands[1][2]>>>>)

\* |a - b| of two pixels of one mode
AbsDiffPixel(mode, a, b) ==
    IF mode = "L" THEN Abs(a - b) ELSE [c \in 1..Len(a) |-> Abs(a[c] - b[c])]

\* cv2.absdiff of two arrays of one shape, band by band
RECURSIVE absdiff(_, _, _)
absdiff(mode, old_bands, new_bands) ==
    IF old_bands = <<>> \/ new_bands = <<>> THEN <<>>
    ELSE LET o == old_bands[1]
             n == new_bands[1]
             rows == IF o[1] < n[1] THEN o[1] ELSE n[1]
         IN  <<<<rows, AbsDiffPixel(mode, o[2], n[2])>>>>
             \o absdiff(mode,
                        IF o[1] = rows THEN Tail(old_bands)
                        ELSE <<<<o[1] - rows, o[2]>>>> \o Tail(old_bands),
                        IF n[1] = rows THEN Tail(new_bands)
                        ELSE <<<<n[1] - rows, n[2]>>>> \o Tail(new_bands))

\* cv2.cvtColor(diff, cv2.COLOR_RGB2GRAY) of an 8-bit pixel: the weights
\* 0.299, 0.587, 0.114 in 15-bit fixed point, rounded; a 2-D difference
\* (dimensions = 2) is taken as it is
GrayPixel(dimensions, p) ==
    IF dimensions # 3 THEN p
    ELSE (p[1] * 9798 + p[2] * 19235 + p[3] * 3735 + 16384) \div 32768

\* cv2.threshold(gray, 30, 255, cv2.THRESH_BINARY): the bands of the mask,
\* <<rows, whether the pixels are 255>>
ThresholdValue == 30

threshold(dimensions, diff) ==
    [b \in 1..Len(diff) |->
         <<diff[b][1], GrayPixel(dimensions, diff[b][2]) > ThresholdValue>>]

\* cv2.findContours(thresh, RETR_EXTERNAL, CHAIN_APPROX_SIMPLE) on a mask
\* of bands: one contour for each maximal run of changed rows, given as
\* <<first row, rows>>; y is the first row of mask[1] and open the number
\* of changed rows just above it
RECURSIVE findContours(_, _, _)
findContours(mask, y, open) ==
    LET closed == IF open > 0 THEN {<<y - open, open>>} ELSE {}
    IN  IF mask = <<>> THEN closed
        ELSE IF mask[1][2]
             THEN findContours(Tail(mask), y + mask[1][1], open + mask[1][1])
             ELSE closed \cup findContours(Tail(mask), y + mask[1][1], 0)

\* cv2.contourArea of the contour of a block of width by rows pixels: the
\* contour runs through the centres of the border pixels
contourArea(width, rows) == (width - 1) * (rows - 1)

MinContourArea == 100

\* np.count_nonzero(thresh)
RECURSIVE count_nonzero(_, _)
count_nonzero(mask, width) ==
    IF mask = <<>> THEN 0
    ELSE (IF mask[1][2] THEN width * mask[1][1] ELSE 0)
         + count_nonzero(Tail(mask), width)

SignificantPercentage == 5

\* significant as the percentage rounded to two places gives it
SignificantAsReported(change_percentage) ==
    Gt(Rational(round(change_percentage[1], change_percentage[2], 100), 100),
       <<SignificantPercentage, 1>>)

\* 'significant': change_percentage > 5.0, of the percentage not yet rounded
significant(change_percentage) == Gt(change_percentage, <<SignificantPercentage, 1>>)

\* the result of _compare_images once both arrays have one shape; the
\* highlighted image is the new array and the bounding rectangles
\* <<x, y, w, h>> drawn on it
PageResult(old_img, new_img, page_number, thresh, contours) ==
    LET width == old_img.size[1]
        counted == {c \in contours : contourArea(width, c[2]) > MinContourArea}
        total_pixels == shape(old_img)[1] * shape(old_img)[2]
        changed_pixels == count_nonzero(thresh, width)
        change_percentage == IF total_pixels > 0
                             THEN Rational(changed_pixels * 100, total_pixels)
                             ELSE <<0, 1>>
    IN  [highlighted_image |->
             [array |-> new_img,
              rectangles |-> {<<0, c[1], width, c[2]>> : c \in counted}],
         changes |->
             [page_number |-> page_number,
              change_count |-> Cardinality(counted),
              change_percentage |->
                  Rational(round(change_percentage[1], change_percentage[2], 100), 100),
              significant |-> significant(change_percentage)]]

Compared(old_img, new_img, page_number, thresh) ==
    PageResult(old_img, new_img, page_number, thresh, findContours(thresh, 0, 0))

cv2_error == [error |-> "cv2.error"]

\* _compare_images once new_img has been resized: cv2.absdiff raises on
\* arrays of two shapes, and cv2.cvtColor with COLOR_RGB2GRAY on a
\* difference of neither three nor four channels
SameSize(old_img, new_img, page_number) ==
    IF shape(old_img) # shape(new_img) THEN cv2_error
    ELSE IF Len(shape(old_img)) = 3 /\ shape(old_img)[3] \notin {3, 4} THEN cv2_error
    ELSE Compared(old_img, new_img, page_number,
                  threshold(Len(shape(old_img)),
                            absdiff(old_img.mode, old_img.bands, new_img.bands)))

_compare_images(old_img, new_img, page_number) ==
    IF old_img = Truncated \/ new_img = Truncated THEN OSError
    ELSE SameSize(old_img,
                  IF shape(old_img) # shape(new_img)
                  THEN resize(new_img, old_img.size) ELSE new_img,
                  page_number)

(***************************************************************************)
(* detect_visual_changes                                                   *)
(***************************************************************************)
\* a file that pdf2image.convert_from_path cannot convert
Corrupt == [corrupt |-> TRUE]

PDFPageCountError == [error |-> "Unable to get page count."]

\* a PDF file of the page images
Pdf(images) == [images |-> images]

\* np.mean of the percentages, rounded to two places; nan for no page
RECURSIVE SumOf(_, _)
SumOf(page_changes, k) ==
    IF k = 0 THEN <<0, 1>>
    ELSE Plus(SumOf(page_changes, k - 1), page_changes[k].change_percentage)

nan == <<0, 0>>

average_change_percentage(page_changes) ==
    IF page_changes = <<>> THEN nan
    ELSE LET mean == Divide(SumOf(page_changes, Len(page_changes)),
                            <<Len(page_changes), 1>>)
         IN  Rational(round(mean[1], mean[2], 100), 100)

RECURSIVE total_changes(_, _)
total_changes(page_changes, k) ==
    IF k = 0 THEN 0
    ELSE total_changes(page_changes, k - 1) + page_changes[k].change_count

Failure(error) == [success |-> FALSE, error |-> error]

\* the report and the file system after the loop over the pages went
\* through without an exception
VisualReport(fs, page_results, output_path) ==
    LET highlighted_images == [i \in 1..Len(page_results) |->
                                   page_results[i].highlighted_image]
        page_changes == [i \in 1..Len(page_results) |-> page_results[i].changes]
        saved == type(output_path) # "NoneType" /\ highlighted_images # <<>>
    IN  [return |->
             [success |-> TRUE,
              visual_diff_url |-> IF saved THEN output_path ELSE None,
              page_count |-> Len(highlighted_images),
              total_changes |-> total_changes(page_changes, Len(page_changes)),
              average_change_percentage |-> average_change_percentage(page_changes),
              page_changes |-> page_changes],
         files |-> IF saved
                   THEN [path \in DOMAIN fs \cup {output_path[2]} |->
                             IF path = output_path[2] THEN Pdf(highlighted_images)
                             ELSE fs[path]]
                   ELSE fs]

\* the loop over range(min(len(old_images), len(new_images))): the first
\* exception leaves the loop for the except clause
Compare(fs, page_results, output_path) ==
    IF \E i \in 1..Len(page_results) : IsError(page_results[i])
    THEN LET first == CHOOSE i \in 1..Len(page_results) :
                          /\ IsError(page_results[i])
                          /\ \A j \in 1..(i - 1) : ~IsError(page_results[j])
         IN  [return |-> Failure(page_results[first].error), files |-> fs]
    ELSE VisualReport(fs, page_results, output_path)

\* ComparePages with the loop index handed on as the page number
ComparePagesFromZero(fs, old_images, new_images, output_path) ==
    Compare(fs,
            [i \in 1..(IF Len(old_images) < Len(new_images)
                        THEN Len(old_images) ELSE Len(new_images)) |->
                 _compare_images(old_images[i], new_images[i], i - 1)],
            output_path)

ComparePages(fs, old_images, new_images, output_path) ==
    Compare(fs,
            [i \in 1..(IF Len(old_images) < Len(new_images)
                        THEN Len(old_images) ELSE Len(new_images)) |->
                 _compare_images(old_images[i], new_images[i], i)],
            output_path)

\* pdf2image.convert_from_path(path, dpi=150): the page images of the
\* file, or the exception raised
convert_from_path(fs, path) ==
    IF path \notin DOMAIN fs \/ fs[path] = Corrupt THEN PDFPageCountError
    ELSE fs[path]

Converted(fs, old_pdf, new_pdf, output_path) ==
    IF IsError(old_pdf) THEN [return |-> Failure(old_pdf.error), files |-> fs]
    ELSE IF IsError(new_pdf)
         THEN [return |-> Failure(new_pdf.error), files |-> fs]
         ELSE ComparePages(fs, old_pdf.images, new_pdf.images, output_path)

\* the return value and the file system after
\* detect_visual_changes(old_pdf_path, new_pdf_path, output_path)
detect_visual_changes(pdf_available, fs, old_pdf_path, new_pdf_path, output_path) ==
    IF ~pdf_available
    THEN [return |-> Failure("PDF processing not available"), files |-> fs]
    ELSE Converted(fs, convert_from_path(fs, old_pdf_path),
                   convert_from_path(fs, new_pdf_path), output_path)

(***************************************************************************)
(* Calls of the visual change detector                                     *)
(***************************************************************************)
MaxPages == 2

WhitePixel == <<255, 255, 255>>

BlackPixel == <<0, 0, 0>>

\* white, 31 levels darker in each channel
ShadedPixel == <<224, 224, 224>>

\* the page images the files hold, 12 pixels wide and 20 high: a white
\* page, a page with a black block of twelve rows, a page with one shaded
\* row, a white page of half the size, and a page whose image data is cut
\* short
PageImages ==
    {Image(<<12, 20>>, "RGB", <<<<20, WhitePixel>>>>),
     Image(<<12, 20>>, "RGB",
           <<<<4, WhitePixel>>, <<12, BlackPixel>>, <<4, WhitePixel>>>>),
     Image(<<12, 20>>, "RGB",
           <<<<4, WhitePixel>>, <<1, ShadedPixel>>, <<15, WhitePixel>>>>),
     Image(<<6, 10>>, "RGB", <<<<10, WhitePixel>>>>),
     Truncated}

PdfFiles == {Pdf(images) : images \in SeqsUpTo(PageImages, MaxPages)} \cup {Corrupt}

VisualCalls ==
    [op : {"detect_visual_changes"},
     old_pdf_path : {"old.pdf"},
     new_pdf_path : {"new.pdf"},
     output_path : {None, Str("diff.pdf")}]

Modes == {"L", "LA", "RGB", "RGBA"}

\* the pixel of a mode with the given level in its colour bands and 255 in
\* its alpha band
Pixel(mode, level) ==
    IF mode = "L" THEN level
    ELSE [c \in 1..Bands(mode) |->
              IF c = Bands(mode) /\ mode \in {"LA", "RGBA"} THEN 255 ELSE level]

\* a white image with its first rows at the given level
Shaded(size, mode, rows, level) ==
    Image(size, mode,
          IF rows = 0 THEN <<<<size[2], Pixel(mode, 255)>>>>
          ELSE <<<<rows, Pixel(mode, level)>>, <<size[2] - rows, Pixel(mode, 255)>>>>)

\* the images handed to _compare_images directly: in each mode, pages of
\* 12 by 20 pixels with 0, 1, 2 or 12 rows shaded by 30 or 31 levels, and
\* strips of 2 by 1999 pixels with 0, 99, 100 or 101 rows shaded
Images ==
    {Shaded(<<12, 20>>, mode, rows, level) :
         mode \in Modes, rows \in {0, 1, 2, 12}, level \in {224, 225}}
    \cup {Shaded(<<2, 1999>>, mode, rows, 224) :
              mode \in Modes, rows \in {0, 99, 100, 101}}
    \cup {Truncated}

\* the new image takes another size only when it has one colour
CompareCalls ==
    {c \in [op : {"_compare_images"}, old_img : Images, new_img : Images,
            page_number : {1}] :
         \/ c.old_img = Truncated
         \/ c.new_img = Truncated
         \/ c.new_img.size = c.old_img.size
         \/ Len(c.new_img.bands) = 1}

VisualInit ==
    /\ pc = "call"
    /\ ret = NoReturn
    /\ rules = _load_default_rules
    /\ critical_keywords = CriticalKeywords
    /\ now = datetime(2025, 6, 15, 12, 0, 0)
    /\ \/ /\ call \in VisualCalls
          /\ PDF_AVAILABLE \in BOOLEAN
          /\ files \in [{"old.pdf", "new.pdf"} -> PdfFiles]
       \/ /\ call \in CompareCalls
          /\ PDF_AVAILABLE = TRUE
          /\ files = NoFiles

\* ChangeDetector.detect_visual_changes
DetectVisualChanges ==
    /\ pc = "call"
    /\ call.op = "detect_visual_changes"
    /\ \E outcome \in {detect_visual_changes(PDF_AVAILABLE, files, call.old_pdf_path,
                                              call.new_pdf_path, call.output_path)} :
           /\ ret' = outcome.return
           /\ files' = outcome.files
    /\ pc' = "return"
    /\ UNCHANGED <<call, rules, critical_keywords, now, PDF_AVAILABLE>>

\* ChangeDetector._compare_images called directly
CompareImages ==
    /\ pc = "call"
    /\ call.op = "_compare_images"
    /\ ret' = _compare_images(call.old_img, call.new_img, call.page_number)
    /\ pc' = "return"
    /\ UNCHANGED <<call, rules, critical_keywords, now, PDF_AVAILABLE, files>>

VisualNext == DetectVisualChanges \/ CompareImages

SpecVisual == VisualInit /\ [][VisualNext]_vars

(***************************************************************************)
(* The three engines together                                              *)
(***************************************************************************)
Init == TextInit \/ ComplianceInit \/ SessionInit \/ VisualInit

Next == TextNext \/ ComplianceNext \/ SessionNext \/ VisualNext

Spec == Init /\ [][Next]_vars

(***************************************************************************)
(* Properties of the compliance checker                                    *)
(***************************************************************************)
ComplianceReturned == pc = "return" /\ call.op = "check_compliance"

IsReport(r) == "overall_status" \in DOMAIN r

\* a report was returned, by the checker or in the response of the router
HasReport ==
    /\ pc = "return"
    /\ \/ call.op = "check_compliance" /\ IsReport(ret)
       \/ call.op = "POST /compliance" /\ ret.status_code = 200

TheReport == IF call.op = "check_compliance" THEN ret ELSE ret.body

\* C7: for a category that is no key of the rule catalog, and any
\* extracted_data, check_compliance returns (it does not raise) a report
\* with overall_status COMPLIANT, no critical issue, no warning,
\* requires_review false and every check PASS.
C7_UnknownCategoryCompliant ==
    (ComplianceReturned /\ call.category \notin DOMAIN rules) =>
        /\ IsReport(ret)
        /\ ret.overall_status = "COMPLIANT"
        /\ ret.critical_issues = 0
        /\ ret.warnings = 0
        /\ ret.requires_review = FALSE
        /\ \A k \in 1..Len(ret.checks) : ret.checks[k].status = "PASS"

\* a category unknown in any case, with a document that lacks a required
\* field of a known category and whose clauses cannot be joined
C7_Witness ==
    /\ ComplianceReturned
    /\ call.category = <<"L","E","A","S","E">>
    /\ "seller_name" \notin DOMAIN call.extracted_data
    /\ type(get(call.extracted_data, "clauses")) = "NoneType"
    /\ IsReport(ret)
    /\ Len(ret.checks) = 5

\* C8: the category of check_compliance is read without regard to case: a
\* call with any case variant of a catalog category returns the report of
\* the call with the upper-case name.
C8_CategoryCaseInsensitive ==
    ComplianceReturned =>
        ret = check_compliance(rules, upper(call.category),
                               call.extracted_data, now)

\* the number of checks of the given kinds that failed
Failed(checks, kinds) ==
    Cardinality({k \in 1..Len(checks) :
                    checks[k].check_type \in kinds /\ checks[k].status = "FAIL"})

\* C9 as stated: critical_issues is the number of FAIL among the
\* required-field, signature and clause checks only; the date, amount and
\* format checks do not contribute.
C9_CriticalIssuesWithoutDateCheck ==
    HasReport =>
        TheReport.critical_issues =
            Failed(TheReport.checks, {"REQUIRED_FIELD", "SIGNATURE", "CLAUSE_CHECK"})

\* C9 amended: critical_issues is the number of FAIL among the
\* required-field, signature, clause and date checks; the amount and format
\* checks do not contribute.
C9_CriticalIssues ==
    HasReport =>
        TheReport.critical_issues =
            Failed(TheReport.checks,
                   {"REQUIRED_FIELD", "SIGNATURE", "CLAUSE_CHECK", "DATE_CHECK"})

\* the date check is the only check that failed, next to a warning of the
\* amount check and an issue of the format check
C9_Witness ==
    /\ HasReport
    /\ TheReport.critical_issues = 1
    /\ \E k \in 1..Len(TheReport.checks) :
           /\ TheReport.checks[k].check_type = "DATE_CHECK"
           /\ TheReport.checks[k].status = "FAIL"
    /\ \E k \in 1..Len(TheReport.checks) :
           /\ TheReport.checks[k].check_type = "AMOUNT_CHECK"
           /\ TheReport.checks[k].status = "WARNING"
    /\ Failed(TheReport.checks, {"REQUIRED_FIELD", "SIGNATURE", "CLAUSE_CHECK"}) = 0

\* C10: overall_status is NON_COMPLIANT if critical_issues > 0, otherwise
\* PARTIALLY_COMPLIANT if warnings > 2, otherwise NEEDS_REVIEW if
\* warnings > 0, otherwise COMPLIANT; requires_review is true exactly when
\* critical_issues > 0 or warnings > 2.
C10_StatusFromCounters ==
    HasReport =>
        /\ TheReport.overall_status =
               (IF TheReport.critical_issues > 0 THEN "NON_COMPLIANT"
                ELSE IF TheReport.warnings > 2 THEN "PARTIALLY_COMPLIANT"
                ELSE IF TheReport.warnings > 0 THEN "NEEDS_REVIEW"
                ELSE "COMPLIANT")
        /\ TheReport.requires_review =
               (TheReport.critical_issues > 0 \/ TheReport.warnings > 2)

\* two warnings and no critical issue: NEEDS_REVIEW, no review required
C10_Witness ==
    /\ HasReport
    /\ TheReport.critical_issues = 0
    /\ TheReport.warnings = 2
    /\ TheReport.overall_status = "NEEDS_REVIEW"
    /\ TheReport.requires_review = FALSE

\* the kinds of the checks of a report, in the order of the report
Kinds(checks) == [k \in 1..Len(checks) |-> checks[k].check_type]

\* C11 as stated: the checks of every report are exactly six, of the kinds
\* REQUIRED_FIELD, SIGNATURE, CLAUSE_CHECK, DATE_CHECK, AMOUNT_CHECK and
\* FORMAT_CHECK in this order, for every category, known or unknown.
C11_SixChecksInOrder ==
    HasReport =>
        Kinds(TheReport.checks) =
            <<"REQUIRED_FIELD", "SIGNATURE", "CLAUSE_CHECK", "DATE_CHECK",
              "AMOUNT_CHECK", "FORMAT_CHECK">>

\* the category as given is a key of the catalog whose rule set has
\* required_clauses
HasRequiredClauses ==
    /\ call.category \in DOMAIN rules
    /\ "required_clauses" \in DOMAIN rules[call.category]

\* C11 amended: the checks of every report are REQUIRED_FIELD, SIGNATURE,
\* DATE_CHECK, AMOUNT_CHECK and FORMAT_CHECK in this order, with
\* CLAUSE_CHECK in third place exactly when the rule set of the category
\* as given has required_clauses.
C11_ChecksInOrder ==
    HasReport =>
        Kinds(TheReport.checks) =
            <<"REQUIRED_FIELD", "SIGNATURE">>
            \o (IF HasRequiredClauses THEN <<"CLAUSE_CHECK">> ELSE <<>>)
            \o <<"DATE_CHECK", "AMOUNT_CHECK", "FORMAT_CHECK">>

\* a report of a known category whose rule set has no required_clauses:
\* five checks, none of them a clause check
C11_Witness ==
    /\ HasReport
    /\ call.category = <<"L","O","A","N","_","A","P","P","L","I","C","A","T","I","O","N">>
    /\ Kinds(TheReport.checks) =
           <<"REQUIRED_FIELD", "SIGNATURE", "DATE_CHECK", "AMOUNT_CHECK",
             "FORMAT_CHECK">>

\* the check of the given kind in the checks of a report
CheckOf(checks, kind) ==
    checks[CHOOSE k \in 1..Len(checks) : checks[k].check_type = kind]

\* C12: suggestions equals the number of issue strings of the format
\* check (three for an invalid SSN, an invalid email and an invalid phone).
C12_SuggestionsCountFormatIssues ==
    HasReport =>
        TheReport.suggestions = Len(CheckOf(TheReport.checks, "FORMAT_CHECK").issues)

\* C13: the report is determined by the explicit inputs of the call: two
\* calls with the same category and extracted_data return the same report
\* whatever the wall-clock time at which each runs (the call has no
\* parameter for "now": the date checks read datetime.now()).
C13_ReportIndependentOfClock ==
    ComplianceReturned =>
        \A wall_clock \in Nows :
            ret = check_compliance(rules, call.category, call.extracted_data,
                                   wall_clock)

\* the values read by the clause check and the format check are of the
\* types these checks take: a list of clauses, str (or nothing) for the
\* email, phone, SSN and legal description
OtherInputsWellTyped(data) ==
    /\ type(dict_get(data, "clauses", List(<<>>))) = "list"
    /\ \A key \in {"email", "applicant_email", "phone", "applicant_phone",
                    "ssn", "legal_description"} :
           type(get(data, key)) \in {"NoneType", "str"}

\* C14: a date or amount value that is absent or cannot be parsed only
\* skips the sub-check that reads it: check_compliance still returns a
\* report (here: whenever the inputs of the other checks are well typed,
\* whatever the dates, the amounts and the amounts of the fees are).
C14_ParseFailureSkipsSubCheck ==
    (ComplianceReturned /\ OtherInputsWellTyped(call.extracted_data)) =>
        IsReport(ret)

\* a LOAN_APPLICATION whose only defect is loan_amount = -500
NegativeLoanCall ==
    /\ call.category = <<"L","O","A","N","_","A","P","P","L","I","C","A","T","I","O","N">>
    /\ call.extracted_data =
           ApplyEdit(CompleteDocument, <<"loan_amount", Str(<<"-","5","0","0">>)>>)

\* C15: the amount check has status PASS without issues and WARNING with
\* issues, never FAIL, and does not count in critical_issues, which is the
\* number of the other checks that failed; a LOAN_APPLICATION whose only
\* defect is loan_amount = -500 gets an amount WARNING with the issue
\* "Loan amount must be positive" and is not NON_COMPLIANT.
C15_AmountChecksCapAtWarning ==
    HasReport =>
        /\ CheckOf(TheReport.checks, "AMOUNT_CHECK").status =
               (IF CheckOf(TheReport.checks, "AMOUNT_CHECK").issues = <<>>
                THEN "PASS" ELSE "WARNING")
        /\ TheReport.critical_issues =
               Failed(TheReport.checks,
                      {"REQUIRED_FIELD", "SIGNATURE", "CLAUSE_CHECK",
                       "DATE_CHECK", "FORMAT_CHECK"})
        /\ NegativeLoanCall =>
               /\ CheckOf(TheReport.checks, "AMOUNT_CHECK").status = "WARNING"
               /\ CheckOf(TheReport.checks, "AMOUNT_CHECK").issues =
                      <<"Loan amount must be positive">>
               /\ TheReport.overall_status # "NON_COMPLIANT"

\* the report of the loan application with loan_amount = -500: one
\* warning, of the amount check, and NEEDS_REVIEW
C15_Witness ==
    /\ HasReport
    /\ NegativeLoanCall
    /\ TheReport.warnings = 1
    /\ TheReport.critical_issues = 0
    /\ TheReport.overall_status = "NEEDS_REVIEW"

\* C16: the status of the date check is PASS for no issue, WARNING for
\* exactly one and FAIL for two or more; its severity is null, MEDIUM and
\* HIGH respectively.
C16_DateStatusByIssueCount ==
    HasReport =>
        /\ CheckOf(TheReport.checks, "DATE_CHECK").status =
               (CASE Len(CheckOf(TheReport.checks, "DATE_CHECK").issues) = 0 -> "PASS"
                  [] Len(CheckOf(TheReport.checks, "DATE_CHECK").issues) = 1 -> "WARNING"
                  [] OTHER -> "FAIL")
        /\ CheckOf(TheReport.checks, "DATE_CHECK").severity =
               (CASE Len(CheckOf(TheReport.checks, "DATE_CHECK").issues) = 0 -> "None"
                  [] Len(CheckOf(TheReport.checks, "DATE_CHECK").issues) = 1 -> "MEDIUM"
                  [] OTHER -> "HIGH")

\* a date check with two issues: FAIL with severity HIGH
C16_Witness ==
    /\ HasReport
    /\ Len(CheckOf(TheReport.checks, "DATE_CHECK").issues) = 2
    /\ CheckOf(TheReport.checks, "DATE_CHECK").status = "FAIL"
    /\ CheckOf(TheReport.checks, "DATE_CHECK").severity = "HIGH"

\* the required-field check was made: in a report, or by a direct call
FieldCheckMade ==
    HasReport \/ (pc = "return" /\ call.op = "_check_required_fields")

TheFieldCheck ==
    IF call.op = "_check_required_fields" THEN ret
    ELSE CheckOf(TheReport.checks, "REQUIRED_FIELD")

\* the required keys of the check, in the order of the catalog (of the
\* call, for a direct call)
TheRequiredFields ==
    IF call.op = "_check_required_fields" THEN call.required
    ELSE IF call.category \in DOMAIN rules
            /\ "required_fields" \in DOMAIN rules[call.category]
         THEN rules[call.category]["required_fields"]
         ELSE <<>>

TheFieldData ==
    IF call.op = "_check_required_fields" THEN call.data
    ELSE call.extracted_data

\* what the nested lookup of a dot path finds in a value: the value at the
\* end of the path, or no value (None) when a key of the path is absent or
\* the value before it is no dict
RECURSIVE Lookup(_, _)
Lookup(value, path) ==
    IF path = <<>> THEN value
    ELSE IF type(value) = "dict" /\ Head(path) \in DOMAIN value[2]
         THEN Lookup(value[2][Head(path)], Tail(path))
         ELSE None

\* an empty or whitespace-only string
Blank(value) ==
    type(value) = "str" /\ \A k \in 1..Len(value[2]) : value[2][k] \in Whitespace

NoValueOrBlank(found) == type(found) = "NoneType" \/ Blank(found)

\* C17: missing_fields of the required-field check holds exactly the
\* required dot-path keys, in catalog order, whose nested lookup finds no
\* value or a blank string; the check is FAIL with severity CRITICAL if
\* that list is not empty, PASS with null severity otherwise.
C17_MissingFields ==
    FieldCheckMade =>
        /\ TheFieldCheck.missing_fields =
               SelectSeq(TheRequiredFields,
                         LAMBDA key : NoValueOrBlank(Lookup(Dict(TheFieldData),
                                                            split(key))))
        /\ TheFieldCheck.status =
               (IF TheFieldCheck.missing_fields # <<>> THEN "FAIL" ELSE "PASS")
        /\ TheFieldCheck.severity =
               (IF TheFieldCheck.missing_fields # <<>> THEN "CRITICAL" ELSE "None")

\* a name that is 0 counts as present, a city two levels down that is the
\* empty str as missing
C17_Witness ==
    /\ pc = "return"
    /\ call.op = "_check_required_fields"
    /\ call.required = <<"buyer.name", "buyer.address.city">>
    /\ ret.missing_fields = <<"buyer.address.city">>
    /\ ret.status = "FAIL"

\* the signature check was made: in a report, or by a direct call
SignatureCheckMade ==
    HasReport \/ (pc = "return" /\ call.op = "_check_signatures")

TheSignatureCheck ==
    IF call.op = "_check_signatures" THEN ret
    ELSE CheckOf(TheReport.checks, "SIGNATURE")

\* the required role labels of the check
TheRequiredSignatures ==
    IF call.op = "_check_signatures" THEN call.required
    ELSE IF call.category \in DOMAIN rules
            /\ "required_signatures" \in DOMAIN rules[call.category]
         THEN rules[call.category]["required_signatures"]
         ELSE <<>>

\* the entries of the signatures list of the call; none when the call
\* has no signatures or signatures is no list
TheSignatureEntries ==
    IF call.op = "_check_signatures"
    THEN IF type(call.signatures) = "list" THEN call.signatures[2] ELSE <<>>
    ELSE IF "signatures" \in DOMAIN call.extracted_data
            /\ type(call.extracted_data["signatures"]) = "list"
         THEN call.extracted_data["signatures"][2]
         ELSE <<>>

\* the entry has the label as the value of the key
HasLabel(entry, key, label) ==
    /\ type(entry) = "dict"
    /\ key \in DOMAIN entry[2]
    /\ type(entry[2][key]) = "str"
    /\ entry[2][key][2] = label

\* the entry carries the label as its type or as its signer_role
Carries(entry, label) ==
    HasLabel(entry, "type", label) \/ HasLabel(entry, "signer_role", label)

\* the value of the key in the entry is not set: absent, None, '' or 0
Unset(entry, key) ==
    \/ key \notin DOMAIN entry[2]
    \/ type(entry[2][key]) = "NoneType"
    \/ type(entry[2][key]) = "str" /\ entry[2][key][2] = <<>>
    \/ type(entry[2][key]) = "number" /\ entry[2][key][2][1] = 0

\* the entry carries the label as its type, or as its signer_role when
\* its type is not set
CarriesFirst(entry, label) ==
    \/ HasLabel(entry, "type", label)
    \/ type(entry) = "dict" /\ Unset(entry, "type")
       /\ HasLabel(entry, "signer_role", label)

\* C18 as stated: missing_signatures holds exactly the required role
\* labels that no entry of the signatures list carries as its type or as
\* its signer_role, entries with both keys set to different roles
\* included; the check is FAIL with severity CRITICAL if a role is
\* missing, PASS otherwise.
C18_MissingSignaturesEitherKey ==
    SignatureCheckMade =>
        /\ TheSignatureCheck.missing_signatures =
               SelectSeq(TheRequiredSignatures,
                         LAMBDA label :
                             ~ \E k \in 1..Len(TheSignatureEntries) :
                                  Carries(TheSignatureEntries[k], label))
        /\ TheSignatureCheck.status =
               (IF TheSignatureCheck.missing_signatures # <<>> THEN "FAIL" ELSE "PASS")
        /\ TheSignatureCheck.severity =
               (IF TheSignatureCheck.missing_signatures # <<>> THEN "CRITICAL" ELSE "None")

\* C18 amended: missing_signatures holds exactly the required role labels
\* that no dict entry of the signatures list carries as its type, or as
\* its signer_role when its type is not set; the check is FAIL with
\* severity CRITICAL if a role is missing, PASS with null severity
\* otherwise.
C18_MissingSignatures ==
    SignatureCheckMade =>
        /\ TheSignatureCheck.missing_signatures =
               SelectSeq(TheRequiredSignatures,
                         LAMBDA label :
                             ~ \E k \in 1..Len(TheSignatureEntries) :
                                  CarriesFirst(TheSignatureEntries[k], label))
        /\ TheSignatureCheck.status =
               (IF TheSignatureCheck.missing_signatures # <<>> THEN "FAIL" ELSE "PASS")
        /\ TheSignatureCheck.severity =
               (IF TheSignatureCheck.missing_signatures # <<>> THEN "CRITICAL" ELSE "None")

\* the only entry has type buyer and signer_role seller: the seller is
\* reported missing
C18_Witness ==
    /\ pc = "return"
    /\ call.op = "_check_signatures"
    /\ call.signatures =
           List(<<Dict("type" :> Str(<<"b","u","y","e","r">>)
                       @@ "signer_role" :> Str(<<"s","e","l","l","e","r">>))>>)
    /\ call.required = << <<"b","u","y","e","r">>, <<"s","e","l","l","e","r">> >>
    /\ ret.missing_signatures = << <<"s","e","l","l","e","r">> >>
    /\ ret.status = "FAIL"

(***************************************************************************)
(* Properties of the visual change detector                                *)
(***************************************************************************)
VisualReturned == pc = "return" /\ call.op = "detect_visual_changes"

\* both files of the call were converted to page images
BothConverted ==
    /\ PDF_AVAILABLE
    /\ ~IsError(convert_from_path(files, call.old_pdf_path))
    /\ ~IsError(convert_from_path(files, call.new_pdf_path))

TheOldImages == files[call.old_pdf_path].images

TheNewImages == files[call.new_pdf_path].images

\* the page numbers both documents have
Overlap ==
    1..(IF Len(TheOldImages) < Len(TheNewImages)
        THEN Len(TheOldImages) ELSE Len(TheNewImages))

\* the pages of the overlap whose comparison raises
FailingPages ==
    {i \in Overlap : IsError(_compare_images(TheOldImages[i], TheNewImages[i], i))}

\* the fields of the report that detect_visual_changes returns
ReportFields ==
    {"success", "visual_diff_url", "page_count", "total_changes",
     "average_change_percentage", "page_changes"}

\* C19: when the two documents have different page counts and every page
\* they share can be compared, the call returns a successful report whose
\* page results are those of pages 1..min(m, n), and the report has a field
\* beside the usual ones that states the mismatch
C19_MismatchSurfacedAsWarning ==
    (VisualReturned /\ BothConverted /\ FailingPages = {}
     /\ Len(TheOldImages) # Len(TheNewImages))
    => /\ ret.success
       /\ Len(ret.page_changes) = Cardinality(Overlap)
       /\ \A k \in Overlap : ret.page_changes[k].page_number = k
       /\ DOMAIN ret \ ReportFields # {}

\* C20: when the comparison of exactly one shared page raises and the other
\* shared pages can be compared, the call still returns a successful report:
\* it has no result for the failing page and has the result of every other
\* shared page
C20_FailingPageSkipped ==
    (VisualReturned /\ BothConverted /\ Cardinality(FailingPages) = 1
     /\ Overlap \ FailingPages # {})
    => /\ ret.success
       /\ \A k \in 1..Len(ret.page_changes) :
              ret.page_changes[k].page_number \notin FailingPages
       /\ \A i \in Overlap \ FailingPages :
              \E k \in 1..Len(ret.page_changes) :
                  ret.page_changes[k]
                      = _compare_images(TheOldImages[i], TheNewImages[i], i).changes

\* C21: in every successful report there is one page result for each
\* compared page pair, and the page result at position k (from 1) has
\* page_number k, so the page numbers ascend strictly; the pages are
\* compared one after the other, so there is no other order of completion
C21_PageResultsInPageOrder ==
    (VisualReturned /\ ret.success)
    => /\ Len(ret.page_changes) = Cardinality(Overlap)
       /\ \A k \in 1..Len(ret.page_changes) : ret.page_changes[k].page_number = k
       /\ \A j, k \in 1..Len(ret.page_changes) :
              j < k => ret.page_changes[j].page_number < ret.page_changes[k].page_number

C21_Witness ==
    /\ VisualReturned
    /\ ret.success
    /\ Len(ret.page_changes) = 2
    /\ ret.page_changes[1] # [ret.page_changes[2] EXCEPT !.page_number = 1]

CompareReturned == pc = "return" /\ call.op = "_compare_images"

\* both images of the call are decoded images
BothDecoded == call.old_img # Truncated /\ call.new_img # Truncated

\* C22: comparing a decoded image with an identical copy of itself returns
\* a page result with change_count 0, change_percentage 0.0 and significant
\* false, whatever the size and the channel layout of the image
C22_IdenticalImagesNoChange ==
    (CompareReturned /\ BothDecoded /\ call.new_img = call.old_img)
    => /\ ~IsError(ret)
       /\ ret.changes.change_count = 0
       /\ ret.changes.change_percentage = <<0, 1>>
       /\ ~ret.changes.significant

\* the page results returned, each with the two images it compares
PageDiffResults ==
    IF CompareReturned /\ ~IsError(ret)
    THEN {<<call.old_img, call.new_img, ret.changes>>}
    ELSE IF VisualReturned /\ ret.success
         THEN {<<TheOldImages[k], TheNewImages[k], ret.page_changes[k]>> :
                   k \in 1..Len(ret.page_changes)}
         ELSE {}

\* 100 * changed_pixel_count / total_pixel_count of two images compared,
\* the changed pixels being those whose difference is above the threshold
ExactPercentage(old_img, new_img) ==
    LET sized == IF new_img.size = old_img.size THEN new_img
                 ELSE resize(new_img, old_img.size)
        mask == threshold(Len(shape(old_img)),
                          absdiff(old_img.mode, old_img.bands, sized.bands))
    IN  Rational(100 * count_nonzero(mask, old_img.size[1]),
                 old_img.size[1] * old_img.size[2])

InRange(percentage) == ~Gt(<<0, 1>>, percentage) /\ ~Gt(percentage, <<100, 1>>)

\* C28: in every page result the change_percentage lies in [0, 100], and
\* significant is true exactly when the change_percentage the result
\* reports, which is rounded to two places, exceeds 5
C28_SignificantWhenReportedAboveFive ==
    \A r \in PageDiffResults :
        /\ InRange(r[3].change_percentage)
        /\ r[3].significant <=> Gt(r[3].change_percentage, <<5, 1>>)

\* C28 as the code has it: the change_percentage reported is
\* 100 * changed_pixel_count / total_pixel_count rounded to two places and
\* lies in [0, 100], and significant is true exactly when the percentage
\* before rounding exceeds 5
C28_SignificantWhenExactAboveFive ==
    \A r \in PageDiffResults :
        LET exact == ExactPercentage(r[1], r[2])
        IN  /\ r[3].change_percentage = Rational(round(exact[1], exact[2], 100), 100)
            /\ InRange(r[3].change_percentage)
            /\ r[3].significant <=> Gt(exact, <<5, 1>>)

C28_Witness ==
    /\ CompareReturned
    /\ ~IsError(ret)
    /\ ret.changes.change_percentage = <<5, 1>>
    /\ ret.changes.significant
    /\ Gt(ExactPercentage(call.old_img, call.new_img), <<5, 1>>)

\* x is a line of the text with the blanks around it stripped, and so a
\* part of the text
AppearsIn(x, text) ==
    /\ \E line \in Range(splitlines(text, <<>>)) : strip(line) = x
    /\ contains(text, x)

\* C23: in every change set returned by detect_text_changes each string of
\* deletions and the old side of each modification appears in old_text,
\* and each string of additions and the new side of each modification
\* appears in new_text
C23_ChangesComeFromTheirText ==
    TextReturned
    => /\ \A x \in Range(ret.deletions) : AppearsIn(x, call.old_text)
       /\ \A x \in Range(ret.additions) : AppearsIn(x, call.new_text)
       /\ \A k \in 1..Len(ret.modifications) :
              /\ AppearsIn(ret.modifications[k].old, call.old_text)
              /\ AppearsIn(ret.modifications[k].new, call.new_text)

\* a change set with a deletion, an addition and a modification
C23_Witness ==
    /\ TextReturned
    /\ ret.deletions # <<>>
    /\ ret.additions # <<>>
    /\ ret.modifications # <<>>
    /\ ~contains(call.new_text, ret.deletions[1])
    /\ ~contains(call.old_text, ret.additions[1])

\* the place of a tier in the order LOW < MEDIUM < HIGH < CRITICAL
Tier(significance) ==
    CASE significance = "LOW"      -> 0
      [] significance = "MEDIUM"   -> 1
      [] significance = "HIGH"     -> 2
      [] significance = "CRITICAL" -> 3

\* deletions that contain a critical keyword, in two letter cases
CriticalDeletions == {LineLoan, LineLoan2}

\* the tier of the change set of the call with one more deletion appended
TierWith(deletion) ==
    Tier(_determine_significance(critical_keywords, call.additions,
                                 Append(call.deletions, deletion),
                                 call.modifications))

\* C24: appending one more deletion that contains a critical keyword to a
\* change set, of whatever tier, gives a tier that is not lower
C24_MonotoneInCriticalDeletions ==
    SignificanceReturned
    => \A deletion \in CriticalDeletions :
           /\ _contains_critical_keyword(critical_keywords, deletion)
           /\ TierWith(deletion) >= Tier(ret.significance)

\* a change set classified LOW that one more critical deletion raises
C24_Witness ==
    /\ SignificanceReturned
    /\ ret.significance = "LOW"
    /\ call.additions # <<>>
    /\ TierWith(LineLoan) = 2

\* C25: detect_text_changes("Purchase Price: $450,000.00",
\* "Purchase Price: $475,000.00") returns one modification with the first
\* line as old, the second as new and a similarity above 0.8, no additions,
\* no deletions, and significance HIGH
C25_PriceChangeIsOneModification ==
    (TextReturned /\ call.old_text = LinePrice450 /\ call.new_text = LinePrice475)
    => /\ Len(ret.modifications) = 1
       /\ ret.modifications[1].old = LinePrice450
       /\ ret.modifications[1].new = LinePrice475
       /\ ret.modifications[1].similarity > 800
       /\ ret.additions = <<>>
       /\ ret.deletions = <<>>
       /\ ret.significance = "HIGH"

C25_Witness ==
    /\ TextReturned
    /\ call.old_text = LinePrice450
    /\ call.new_text = LinePrice475
    /\ ret.modifications[1].similarity = 963
    /\ ret.significance = "HIGH"

\* C26: the catalog is the one loaded at construction after any sequence of
\* calls of check_compliance, a call leaves the extracted_data it was given
\* as it was, and so what a call returns is what a first call with its
\* arguments returns
C26_CatalogNeverMutated ==
    /\ [](rules = _load_default_rules)
    /\ [](ComplianceReturned
          => ret = check_compliance(_load_default_rules, call.category,
                                    call.extracted_data, now))
    /\ [][pc = "call" => call'.extracted_data = call.extracted_data]_vars

\* a later call, for a category not in the catalog, has returned
C26_Witness ==
    /\ ComplianceReturned
    /\ "seq" \in DOMAIN call
    /\ call.seq = MaxCalls
    /\ call.category \notin DOMAIN _load_default_rules
    /\ rules = _load_default_rules

\* the amount checks of the rule set of the call
TheAmountChecks == Range(RuleList(CategoryRules(rules, call.category), "amount_checks"))

\* the field of the data of the call parses to a number that is not above 0
NonPositive(field) ==
    LET amount == _parse_amount(get(call.extracted_data, field))
    IN  type(amount) = "number" /\ ~Gt(amount[2], <<0, 1>>)

\* C27: whenever purchase_price, under the check purchase_price_positive,
\* or loan_amount, under the check loan_amount_positive, parses to a number
\* that is 0 or less, the amount check has the issue that the amount must
\* be positive
C27_NonPositiveAmountsFlagged ==
    HasReport
    => /\ ("purchase_price_positive" \in TheAmountChecks /\ NonPositive("purchase_price"))
          => "Purchase price must be positive"
                 \in Range(CheckOf(TheReport.checks, "AMOUNT_CHECK").issues)
       /\ ("loan_amount_positive" \in TheAmountChecks /\ NonPositive("loan_amount"))
          => "Loan amount must be positive"
                 \in Range(CheckOf(TheReport.checks, "AMOUNT_CHECK").issues)

\* C29: in every report of check_compliance warnings is at most 2 (only the
\* date check and the amount check add one each), so overall_status is never
\* PARTIALLY_COMPLIANT and requires_review is true exactly when
\* overall_status is NON_COMPLIANT.
C29_AtMostTwoWarnings ==
    HasReport =>
        /\ TheReport.warnings <= 2
        /\ TheReport.warnings =
               One(CheckOf(TheReport.checks, "DATE_CHECK").status = "WARNING")
               + One(CheckOf(TheReport.checks, "AMOUNT_CHECK").status = "WARNING")
        /\ TheReport.overall_status # "PARTIALLY_COMPLIANT"
        /\ TheReport.requires_review = (TheReport.overall_status = "NON_COMPLIANT")

\* the date check and the amount check both warn and nothing fails: two
\* warnings, NEEDS_REVIEW, no review required
C29_Witness ==
    /\ HasReport
    /\ CheckOf(TheReport.checks, "DATE_CHECK").status = "WARNING"
    /\ CheckOf(TheReport.checks, "AMOUNT_CHECK").status = "WARNING"
    /\ TheReport.warnings = 2
    /\ TheReport.overall_status = "NEEDS_REVIEW"
    /\ ~TheReport.requires_review

\* the raw removed lines D and added lines A of the diff of the call
TheRemoved == ParsedDiff(call.old_text, call.new_text)[1]

TheAdded == ParsedDiff(call.old_text, call.new_text)[2]

\* the list with the entries at the taken indices left out, in its order
RECURSIVE Without(_, _, _)
Without(list, taken, k) ==
    IF k > Len(list)
    THEN <<>>
    ELSE (IF k \in taken THEN <<>> ELSE <<list[k]>>) \o Without(list, taken, k + 1)

\* the indices of D and of A that the modifications paired
PairedOld(modifications) == {modifications[k].i : k \in 1..Len(modifications)}

PairedNew(modifications) == {modifications[k].j : k \in 1..Len(modifications)}

HasDuplicate(list) ==
    \E k, l \in 1..Len(list) : k < l /\ list[k] = list[l]

====
